---------------------------- MODULE Spec2Model ----------------------------
(***************************************************************************)
(* A model of the MongoDB command handler (db-commands.ts): the command    *)
(* validator, the command executor with its timeout race and its spill of  *)
(* oversized results to a temp file, the chunked reading of such a file    *)
(* behind the path sanitizer, and the module's connection to the server.   *)
(*                                                                         *)
(* JavaScript values are tagged records: [num |-> 1], [str |-> "x"],       *)
(* [bool |-> TRUE], [null |-> TRUE], [undef |-> TRUE], [arr |-> <<..>>]    *)
(* and [obj |-> <<..>>], an object being the sequence of its own           *)
(* enumerable properties [k |-> key, v |-> value] in insertion order.      *)
(* Strings are TLA+ strings, so that JSON.stringify and String.includes    *)
(* are computed character by character as the runtime computes them.       *)
(***************************************************************************)
EXTENDS Integers, Sequences, FiniteSets, TLC

VARIABLES
    vcall,      \* validateCommand called directly: its arguments
    vresult,    \* ... and what it threw ("none": it returned), "pending" before
    pc,         \* executeCommand: "idle", "awaiting", "spilling", "returned" or "threw"
    call,       \* executeCommand's arguments [command, options]
    ctl,        \* the control options extracted: outputToFile, forceOutput, timeout
    validated,  \* the options object handed to validateCommand by executeCommand
    payload,    \* the commandObj handed to db.command
    op,         \* the promise of db.command: "none", "pending", "settled"
    timer,      \* the timer of withTimeout: "none", "armed", "fired"
    driverResult, \* what db.command resolved with
    outcome,    \* what executeCommand returned or threw
    files,      \* the temp directory: file path -> the parts the file consists of
    now,        \* the clock: milliseconds since the process started
    filesBefore, \* history: the temp directory when the call in progress started
    spills,     \* the writeResultToTempFile calls in progress, one per writer
    cwd,        \* process.cwd()
    rcall,      \* readFileChunk's arguments [filePath, offset, length]
    rresult,    \* what readFileChunk returned or threw
    rstep,      \* where that readFileChunk stands: the call it awaits, what it holds
    fsCalls,    \* the file system calls of that readFileChunk, in order
    handles,    \* the file handles open in the process: [path, position] each
    reader,     \* a client reading a spilled result back chunk by chunk
    mongoClient, \* the module's client handle (0: null)
    mongoDb,    \* the module's database handle: the client it came from (0: null)
    clients,    \* the MongoClient objects created so far: their state
    callers,    \* the connect/disconnect calls in progress, one per caller
    overlapped, \* history: a connect call ran while another call was in progress
    client,     \* index_new.ts: the legacy client reference (0: null)
    db,         \* index_new.ts: the legacy database reference (0: null)
    env,        \* process.env: variable name -> value, "" when it is not set
    tcall,      \* the tool call being handled: [name, arguments]
    ctool,      \* the connect or disconnect tool call being handled, and its answer
    tresponse,  \* what the call-tool handler returned, or the exception it let out
    dbOps,      \* the operations that tool call has issued on the database
    rseen,      \* history: a readFileChunk call remembered with its result
    reported    \* history: what the last connect or disconnect tool call reported

execVars == <<vcall, vresult, pc, call, ctl, validated, payload, op, timer,
              driverResult, outcome, files, now, filesBefore, spills>>

readVars == <<cwd, rcall, rresult, rstep, fsCalls, handles, reader>>

connVars == <<mongoClient, mongoDb, clients, callers, overlapped>>

toolVars == <<client, db, env, tcall, ctool, tresponse, dbOps>>

histVars == <<rseen, reported>>

vars == <<execVars, readVars, connVars, toolVars, histVars>>

-----------------------------------------------------------------------------
(* Bounds of the model *)

\* most own properties an options bag carries
MaxKeys == 2
\* deepest nesting at which an operator key is placed in an options bag
MaxDepth == 2

-----------------------------------------------------------------------------
(* Program constants *)

MAX_RESPONSE_SIZE == 100000
DEFAULT_TIMEOUT == 30000

ALLOWED_COMMANDS ==
    << "dbStats", "collStats", "serverStatus", "buildInfo", "connectionStatus",
       "ping", "hello", "hostInfo", "listCommands", "features", "connect",
       "disconnect" >>

DANGEROUS_OPERATORS ==
    << "$where", "$function", "$accumulator", "$map", "$merge", "$out",
       "$lookup", "$graphLookup" >>

MongoCommandErrorCodes ==
    { "COMMAND_NOT_ALLOWED", "INVALID_COMMAND_STRUCTURE", "DANGEROUS_OPERATION",
      "EXECUTION_ERROR", "FILE_OPERATION_ERROR", "CONNECTION_ERROR",
      "TIMEOUT_ERROR" }

\* os.tmpdir()
TmpDir == "/tmp"

-----------------------------------------------------------------------------
(* JavaScript values *)

Num(n) == [num |-> n]
Str(s) == [str |-> s]
Bool(b) == [bool |-> b]
Null == [null |-> TRUE]
Undefined == [undef |-> TRUE]
Arr(items) == [arr |-> items]
Obj(props) == [obj |-> props]
Prop(key, value) == [k |-> key, v |-> value]

IsNum(v) == "num" \in DOMAIN v
IsStr(v) == "str" \in DOMAIN v
IsBool(v) == "bool" \in DOMAIN v
IsNull(v) == "null" \in DOMAIN v
IsUndefined(v) == "undef" \in DOMAIN v
IsArr(v) == "arr" \in DOMAIN v
IsObj(v) == "obj" \in DOMAIN v

\* ToBoolean: undefined, null, false, 0 and "" are falsy
Truthy(v) ==
    CASE IsUndefined(v) -> FALSE
      [] IsNull(v) -> FALSE
      [] IsBool(v) -> v.bool
      [] IsNum(v) -> v.num # 0
      [] IsStr(v) -> v.str # ""
      [] OTHER -> TRUE

\* a || b
OrElse(a, b) == IF Truthy(a) THEN a ELSE b

\* Array.prototype.includes on a tuple of strings
Includes(list, x) == \E i \in 1..Len(list) : list[i] = x

\* Object.keys(o)
Keys(o) == [i \in 1..Len(o.obj) |-> o.obj[i].k]

\* key in o
HasKey(o, key) == \E i \in 1..Len(o.obj) : o.obj[i].k = key

\* o[key]: undefined when o has no such property
Get(o, key) ==
    IF HasKey(o, key)
    THEN o.obj[CHOOSE i \in 1..Len(o.obj) : o.obj[i].k = key].v
    ELSE Undefined

\* o[key] = value: an existing property keeps its place, a new one is appended
Put(o, key, value) ==
    IF HasKey(o, key)
    THEN Obj([i \in 1..Len(o.obj) |->
                 IF o.obj[i].k = key THEN Prop(key, value) ELSE o.obj[i]])
    ELSE Obj(Append(o.obj, Prop(key, value)))

\* delete o[key]
Delete(o, key) == Obj(SelectSeq(o.obj, LAMBDA p : p.k # key))

RECURSIVE SpreadFrom(_, _, _)
SpreadFrom(base, src, i) ==
    IF i > Len(src.obj) THEN base
    ELSE SpreadFrom(Put(base, src.obj[i].k, src.obj[i].v), src, i + 1)

\* { ...base, ...src }
Spread(base, src) == SpreadFrom(base, src, 1)

-----------------------------------------------------------------------------
(* JSON.stringify and String.prototype.includes *)

\* the characters JSON.stringify escapes in a string: the quote, the
\* backslash and the control characters (those a text of the model can hold)
RECURSIVE Quote(_, _)
Quote(s, i) ==
    IF i > Len(s) THEN ""
    ELSE LET c == SubSeq(s, i, i)
         IN (IF c = "\"" THEN "\\\""
             ELSE IF c = "\\" THEN "\\\\"
             ELSE IF c = "\n" THEN "\\n"
             ELSE IF c = "\t" THEN "\\t"
             ELSE IF c = "\r" THEN "\\r"
             ELSE IF c = "\f" THEN "\\f"
             ELSE c)
            \o Quote(s, i + 1)

QuoteString(s) == "\"" \o Quote(s, 1) \o "\""

\* a value that JSON.stringify leaves out of an object (and turns to null in an array)
Unserializable(v) == IsUndefined(v)

RECURSIVE Stringify(_), StringifyProps(_, _, _), StringifyItems(_, _)
Stringify(v) ==
    CASE IsNum(v) -> ToString(v.num)
      [] IsStr(v) -> QuoteString(v.str)
      [] IsBool(v) -> IF v.bool THEN "true" ELSE "false"
      [] IsNull(v) -> "null"
      [] IsArr(v) -> "[" \o StringifyItems(v.arr, 1) \o "]"
      [] IsObj(v) -> "{" \o StringifyProps(v.obj, 1, TRUE) \o "}"

StringifyProps(props, i, first) ==
    IF i > Len(props) THEN ""
    ELSE IF Unserializable(props[i].v) THEN StringifyProps(props, i + 1, first)
    ELSE (IF first THEN "" ELSE ",")
         \o QuoteString(props[i].k) \o ":" \o Stringify(props[i].v)
         \o StringifyProps(props, i + 1, FALSE)

StringifyItems(items, i) ==
    IF i > Len(items) THEN ""
    ELSE (IF i = 1 THEN "" ELSE ",")
         \o (IF Unserializable(items[i]) THEN "null" ELSE Stringify(items[i]))
         \o StringifyItems(items, i + 1)

\* haystack.includes(needle)
StrIncludes(haystack, needle) ==
    \E i \in 1..(Len(haystack) - Len(needle) + 1) :
        SubSeq(haystack, i, i + Len(needle) - 1) = needle

-----------------------------------------------------------------------------
(* JSON.stringify(value, null, 2) and the UTF-8 encoding of a text.          *)
(* The letter "E" stands for a character outside ASCII (U+00E9), which is    *)
(* one UTF-16 unit of a string and the two bytes C3 A9 of a file; "?" is     *)
(* what the decoder puts for a malformed sequence (U+FFFD). A byte is a      *)
(* string: an ASCII byte its character, the other two "C3" and "A9".         *)

RECURSIVE Spaces(_)
Spaces(n) == IF n = 0 THEN "" ELSE " " \o Spaces(n - 1)

RECURSIVE StringifyPretty(_, _), PrettyProps(_, _, _, _), PrettyItems(_, _, _)
\* JSON.stringify(v, null, 2) for a value that is indent columns in
StringifyPretty(v, indent) ==
    CASE IsArr(v) ->
             IF Len(v.arr) = 0 THEN "[]"
             ELSE "[\n" \o PrettyItems(v.arr, 1, indent + 2)
                  \o "\n" \o Spaces(indent) \o "]"
      [] IsObj(v) ->
             LET members == PrettyProps(v.obj, 1, TRUE, indent + 2)
             IN IF members = "" THEN "{}"
                ELSE "{\n" \o members \o "\n" \o Spaces(indent) \o "}"
      [] OTHER -> Stringify(v)

PrettyProps(props, i, first, indent) ==
    IF i > Len(props) THEN ""
    ELSE IF Unserializable(props[i].v) THEN PrettyProps(props, i + 1, first, indent)
    ELSE (IF first THEN "" ELSE ",\n")
         \o Spaces(indent) \o QuoteString(props[i].k) \o ": "
         \o StringifyPretty(props[i].v, indent)
         \o PrettyProps(props, i + 1, FALSE, indent)

PrettyItems(items, i, indent) ==
    IF i > Len(items) THEN ""
    ELSE (IF i = 1 THEN "" ELSE ",\n")
         \o Spaces(indent)
         \o (IF Unserializable(items[i]) THEN "null"
             ELSE StringifyPretty(items[i], indent))
         \o PrettyItems(items, i + 1, indent)

\* the bytes fs.writeFile(path, text, 'utf8') writes
RECURSIVE Utf8Encode(_, _)
Utf8Encode(text, i) ==
    IF i > Len(text) THEN <<>>
    ELSE LET c == SubSeq(text, i, i)
         IN (IF c = "E" THEN <<"C3", "A9">> ELSE <<c>>) \o Utf8Encode(text, i + 1)

\* buffer.toString('utf8'): a sequence cut short or begun in the middle
\* decodes to the replacement character
RECURSIVE Utf8Decode(_, _)
Utf8Decode(bytes, i) ==
    IF i > Len(bytes) THEN ""
    ELSE IF bytes[i] = "C3"
    THEN IF i < Len(bytes) /\ bytes[i + 1] = "A9"
         THEN "E" \o Utf8Decode(bytes, i + 2)
         ELSE "?" \o Utf8Decode(bytes, i + 1)
    ELSE IF bytes[i] = "A9" THEN "?" \o Utf8Decode(bytes, i + 1)
    ELSE bytes[i] \o Utf8Decode(bytes, i + 1)

-----------------------------------------------------------------------------
(* validateCommand *)

\* what validateCommand throws; NoError when it returns
NoError == "none"

\* the synthetic command object validateCommand inspects
ValidatedCommandObj(command, options) ==
    IF command = "collStats"
    THEN Spread(Obj(<<Prop(command, OrElse(Get(options, "collection"), Str("")))>>),
                options)
    ELSE Spread(Obj(<<Prop(command, Num(1))>>), options)

\* an allowlist check with its negation lost
NotAllowed_Negated(command) == Includes(ALLOWED_COMMANDS, command)

\* the allowlist check
NotAllowed(command) == ~Includes(ALLOWED_COMMANDS, command)

\* the injection check: a key other than the command that is itself a command
HasInjectedCommand(command, commandObj) ==
    \E i \in 1..Len(commandObj.obj) :
        /\ commandObj.obj[i].k # command
        /\ Includes(ALLOWED_COMMANDS, commandObj.obj[i].k)

\* a scan of the top-level keys only, in place of the serialized text
HasDangerousOperator_TopLevel(commandObj) ==
    \E d \in 1..Len(DANGEROUS_OPERATORS) :
        \E i \in 1..Len(commandObj.obj) : commandObj.obj[i].k = DANGEROUS_OPERATORS[d]

\* a scan for the bare name of an operator anywhere in the serialized text
HasDangerousOperator_AnyOccurrence(commandObj) ==
    LET flattenedObj == Stringify(commandObj)
    IN \E d \in 1..Len(DANGEROUS_OPERATORS) :
           StrIncludes(flattenedObj, DANGEROUS_OPERATORS[d])

\* the dangerous operator scan over the serialized command object
HasDangerousOperator(commandObj) ==
    LET flattenedObj == Stringify(commandObj)
    IN \E d \in 1..Len(DANGEROUS_OPERATORS) :
           StrIncludes(flattenedObj, "\"" \o DANGEROUS_OPERATORS[d] \o "\":")

\* the operator scan run before the injection check
ValidateCommand_ScanFirst(command, options) ==
    IF NotAllowed(command) THEN "COMMAND_NOT_ALLOWED"
    ELSE LET commandObj == ValidatedCommandObj(command, options)
         IN IF HasDangerousOperator(commandObj)
            THEN "DANGEROUS_OPERATION"
            ELSE IF HasInjectedCommand(command, commandObj)
            THEN "INVALID_COMMAND_STRUCTURE"
            ELSE NoError

ValidateCommand(command, options) ==
    IF NotAllowed(command) THEN "COMMAND_NOT_ALLOWED"
    ELSE LET commandObj == ValidatedCommandObj(command, options)
         IN IF HasInjectedCommand(command, commandObj)
            THEN "INVALID_COMMAND_STRUCTURE"
            ELSE IF HasDangerousOperator(commandObj)
            THEN "DANGEROUS_OPERATION"
            ELSE NoError

-----------------------------------------------------------------------------
(* Errors *)

\* createCommandError(code, message, details); the message is left out
CreateCommandError(code, details) == [code |-> code, details |-> details]

\* an error rejected by the driver: an Error object and its own properties
DriverError(name, props) == [name |-> name, props |-> props]

\* 'code' in error
HasCodeProperty(error) ==
    IF "props" \in DOMAIN error THEN "code" \in error.props
    ELSE "code" \in DOMAIN error

\* the catch block of executeCommand: what it rethrows for a caught error
CatchExecute(error) ==
    IF HasCodeProperty(error) THEN error
    ELSE CreateCommandError("EXECUTION_ERROR", error)

-----------------------------------------------------------------------------
(* The driver's results: the document {d: "x...x"} with a string of pad      *)
(* characters, kept as [d |-> pad], and documents kept as JavaScript values  *)

\* JSON.stringify(result).length
JsonLength(result) ==
    IF "d" \in DOMAIN result THEN Len("{\"d\":\"\"}") + result.d
    ELSE Len(Stringify(result))

\* the bytes of JSON.stringify(result, null, 2) in a file
FileBytes(result) == Utf8Encode(StringifyPretty(result, 0), 1)

\* the size of the file JSON.stringify(result, null, 2) is written to
PrettyLength(result) ==
    IF "d" \in DOMAIN result THEN Len("{\n  \"d\": \"\"\n}") + result.d
    ELSE Len(FileBytes(result))

-----------------------------------------------------------------------------
(* writeResultToTempFile *)

\* three digits of milliseconds
Pad3(n) ==
    (IF n < 10 THEN "00" ELSE IF n < 100 THEN "0" ELSE "") \o ToString(n)

\* new Date().toISOString(), t milliseconds after the process started
IsoString(t) == "2025-01-01T00:00:00." \o Pad3(t) \o "Z"

\* a replacement of the colons that leaves the periods
RECURSIVE ReplaceColonsDots_ColonsOnly(_, _)
ReplaceColonsDots_ColonsOnly(s, i) ==
    IF i > Len(s) THEN ""
    ELSE LET c == SubSeq(s, i, i)
         IN (IF c = ":" THEN "-" ELSE c) \o ReplaceColonsDots_ColonsOnly(s, i + 1)

\* s.replace(/[:.]/g, '-')
RECURSIVE ReplaceColonsDots(_, _)
ReplaceColonsDots(s, i) ==
    IF i > Len(s) THEN ""
    ELSE LET c == SubSeq(s, i, i)
         IN (IF c = ":" \/ c = "." THEN "-" ELSE c) \o ReplaceColonsDots(s, i + 1)

Timestamp(t) == ReplaceColonsDots(IsoString(t), 1)

\* path.join(tempDir, fileName)
TempFilePath(t) == TmpDir \o "/" \o "mongodb-result-" \o Timestamp(t) \o ".json"

\* the record writeResultToTempFile returns for a file fs.stat found of this size
SpillRecord(size, t) ==
    [ filePath |-> TempFilePath(t),
      size |-> size,
      timestamp |-> Timestamp(t),
      notice |-> "Result exceeded size limit and was written to a temporary file." ]

(* A file is the sequence of its parts. A part is the bytes from `from` up  *)
(* to `to` of the text JSON.stringify(data, null, 2), or, with Null for the  *)
(* data, a hole of zero bytes: what a write beyond the end of a file leaves  *)
(* before it. A file written by one fs.writeFile alone is one part, the      *)
(* whole text.                                                               *)

FileOf(data) == <<[data |-> data, from |-> 0, to |-> PrettyLength(data)]>>

\* stats.size
RECURSIVE FileSize(_)
FileSize(parts) ==
    IF parts = <<>> THEN 0
    ELSE Head(parts).to - Head(parts).from + FileSize(Tail(parts))

\* the bytes of a file, a zero byte being "0"
RECURSIVE ContentBytes(_)
ContentBytes(parts) ==
    IF parts = <<>> THEN <<>>
    ELSE LET part == Head(parts)
         IN (IF part.data = Null THEN [i \in 1..(part.to - part.from) |-> "0"]
             ELSE SubSeq(FileBytes(part.data), part.from + 1, part.to))
            \o ContentBytes(Tail(parts))

\* a file after a write of `part` at position pos: the bytes before pos stay,
\* with a hole up to pos when the file is shorter, and so do the bytes after
\* the part; neighbouring parts that continue one another are one part
Overwrite(parts, pos, part) ==
    LET length(q) == q.to - q.from
        RECURSIVE take(_, _)
        take(ps, n) ==
            IF n <= 0 THEN <<>>
            ELSE IF ps = <<>> THEN <<[data |-> Null, from |-> 0, to |-> n]>>
            ELSE IF length(Head(ps)) <= n
            THEN <<Head(ps)>> \o take(Tail(ps), n - length(Head(ps)))
            ELSE <<[Head(ps) EXCEPT !.to = Head(ps).from + n]>>
        RECURSIVE drop(_, _)
        drop(ps, n) ==
            IF ps = <<>> \/ n <= 0 THEN ps
            ELSE IF length(Head(ps)) <= n
            THEN drop(Tail(ps), n - length(Head(ps)))
            ELSE <<[Head(ps) EXCEPT !.from = @ + n]>> \o Tail(ps)
        hole(q) == [data |-> Null, from |-> 0, to |-> length(q)]
        RECURSIVE merge(_)
        merge(ps) ==
            IF ps = <<>> THEN <<>>
            ELSE LET a == IF Head(ps).data = Null THEN hole(Head(ps)) ELSE Head(ps)
                 IN IF Len(ps) = 1 THEN <<a>>
                    ELSE LET b == ps[2]
                         IN IF a.data = b.data /\ (a.data = Null \/ a.to = b.from)
                            THEN merge(<<[a EXCEPT !.to = @ + length(b)]>>
                                       \o SubSeq(ps, 3, Len(ps)))
                            ELSE <<a>> \o merge(Tail(ps))
    IN merge(take(parts, pos) \o <<part>> \o drop(parts, pos + length(part)))

\* a writeResultToTempFile call: the time its path was made at, the data,
\* and the position of fs.writeFile in it, -1 before the file is opened
NoSpill == [state |-> "idle"]
\* the executeCommand call the variables follow, and another beside it
Writers == {1, 2}
NoSpills == [w \in Writers |-> NoSpill]

\* the most one write call of fs.writeFile hands to the file system
kWriteFileMaxChunkSize == 524288

\* the bytes the next write call of fs.writeFile takes of what remains of
\* the text
PieceLength(remaining) ==
    IF remaining < kWriteFileMaxChunkSize THEN remaining ELSE kWriteFileMaxChunkSize

\* the temp directory after the next file system call of the fs.writeFile of
\* spill w: the open that creates the file or empties it, or the write of
\* the next piece at the position fs.writeFile has got to
WriteStep(fs, w) ==
    LET path == TempFilePath(w.t)
        length == PrettyLength(w.data)
        to == w.pos + PieceLength(length - w.pos)
    IN IF w.pos = -1
       THEN [p \in DOMAIN fs \cup {path} |-> IF p = path THEN <<>> ELSE fs[p]]
       ELSE [fs EXCEPT ![path] =
                Overwrite(@, w.pos, [data |-> w.data, from |-> w.pos, to |-> to])]

\* what a fs.writeFile that nothing interferes with leaves in the temp directory
WriteFile(fs, path, data) ==
    [p \in DOMAIN fs \cup {path} |-> IF p = path THEN FileOf(data) ELSE fs[p]]

\* the failures of the file system calls of writeResultToTempFile
FsFaults == {"none", "writeFile", "stat"}

\* a failed file system call whose error is thrown on as it is
FileOperationError_Unwrapped(fault) == DriverError("Error", {"message", fault})

\* the error writeResultToTempFile throws for a failed file system call
FileOperationError(fault) ==
    CreateCommandError("FILE_OPERATION_ERROR", DriverError("Error", {"message", fault}))

-----------------------------------------------------------------------------
(* executeCommand *)

NoCall == [command |-> "", options |-> Obj(<<>>)]
NoControl == [outputToFile |-> FALSE, forceOutput |-> FALSE, timeout |-> 0]
NoObject == [none |-> TRUE]
NoOutcome == [kind |-> "none"]
NoResult == [d |-> -1]

\* a control extraction that always takes the default timeout
ExtractControl_DefaultTimeout(options) ==
    [ outputToFile |-> Truthy(Get(options, "outputToFile")),
      forceOutput |-> Truthy(Get(options, "forceOutput")),
      timeout |-> DEFAULT_TIMEOUT ]

\* outputToFile, forceOutput and timeout as executeCommand reads them
ExtractControl(options) ==
    [ outputToFile |-> Truthy(Get(options, "outputToFile")),
      forceOutput |-> Truthy(Get(options, "forceOutput")),
      timeout |-> IF IsNum(Get(options, "timeout"))
                  THEN Get(options, "timeout").num ELSE DEFAULT_TIMEOUT ]

\* a strip that forgets the timeout
StripControl_KeepsTimeout(options) ==
    Delete(Delete(options, "outputToFile"), "forceOutput")

\* cleanOptions: a copy of the options without the three control options
StripControl(options) ==
    Delete(Delete(Delete(options, "outputToFile"), "forceOutput"), "timeout")

\* the commandObj executeCommand builds for db.command
BuildCommandObj(command, cleanOptions) ==
    IF command = "collStats"
    THEN LET collName == OrElse(Get(cleanOptions, "collection"),
                                Get(cleanOptions, "collStats"))
             commandObj == Spread(Obj(<<Prop(command, collName)>>), cleanOptions)
             noCollection == IF HasKey(commandObj, "collection")
                             THEN Delete(commandObj, "collection") ELSE commandObj
         IN IF HasKey(noCollection, "collStats")
            THEN Delete(noCollection, "collStats") ELSE noCollection
    ELSE IF command = "dbStats"
    THEN Spread(Obj(<<Prop(command, Num(1))>>), cleanOptions)
    ELSE Spread(Obj(<<Prop(command, OrElse(Get(cleanOptions, "collection"), Num(1)))>>),
                cleanOptions)

\* a threshold that is met by a result of exactly the limit
ShouldSpill_AtLimit(resultSize, outputToFile, forceOutput) ==
    (resultSize >= MAX_RESPONSE_SIZE \/ outputToFile) /\ ~forceOutput

\* whether the result goes to a temp file
ShouldSpill(resultSize, outputToFile, forceOutput) ==
    (resultSize > MAX_RESPONSE_SIZE \/ outputToFile) /\ ~forceOutput

\* an executeCommand that hands the command to the driver before validating it
ExecuteCommand_SendFirst(command, options) ==
    /\ pc = "idle"
    /\ LET cleanOptions == StripControl(options)
           error == ValidateCommand(command, cleanOptions)
       IN /\ call' = [command |-> command, options |-> options]
          /\ ctl' = ExtractControl(options)
          /\ validated' = cleanOptions
          /\ filesBefore' = files
          /\ payload' = BuildCommandObj(command, cleanOptions)
          /\ op' = "pending"
          /\ IF error # NoError
             THEN /\ pc' = "threw"
                  /\ outcome' = [kind |-> "error",
                                 error |-> CatchExecute(CreateCommandError(error, Undefined))]
                  /\ UNCHANGED timer
             ELSE /\ pc' = "awaiting"
                  /\ timer' = "armed"
                  /\ UNCHANGED outcome
    /\ UNCHANGED <<readVars, connVars, toolVars, histVars, vcall, vresult, driverResult, files, now, spills>>

\* an executeCommand that deletes the control options from the caller's object
ExecuteCommand_StripsInPlace(command, options) ==
    /\ pc = "idle"
    /\ LET cleanOptions == StripControl(options)
           error == ValidateCommand(command, cleanOptions)
       IN /\ call' = [command |-> command, options |-> cleanOptions]
          /\ ctl' = ExtractControl(options)
          /\ validated' = cleanOptions
          /\ filesBefore' = files
          /\ IF error # NoError
             THEN /\ pc' = "threw"
                  /\ outcome' = [kind |-> "error",
                                 error |-> CatchExecute(CreateCommandError(error, Undefined))]
                  /\ UNCHANGED <<payload, op, timer>>
             ELSE /\ pc' = "awaiting"
                  /\ payload' = BuildCommandObj(command, cleanOptions)
                  /\ op' = "pending"
                  /\ timer' = "armed"
                  /\ UNCHANGED outcome
    /\ UNCHANGED <<readVars, connVars, toolVars, histVars, vcall, vresult, driverResult, files, now, spills>>

\* executeCommand(database, command, options) up to its await: extract,
\* strip, validate, build, db.command; on a database that is null (0)
\* db.command throws a TypeError inside the try, before the timer is set
ExecuteCommandOn(database, command, options) ==
    /\ pc = "idle"
    /\ LET cleanOptions == StripControl(options)
           error == ValidateCommand(command, cleanOptions)
       IN /\ call' = [command |-> command, options |-> options]
          /\ ctl' = ExtractControl(options)
          /\ validated' = cleanOptions
          /\ filesBefore' = files
          /\ IF error # NoError
             THEN /\ pc' = "threw"
                  /\ outcome' = [kind |-> "error",
                                 error |-> CatchExecute(CreateCommandError(error, Undefined))]
                  /\ UNCHANGED <<payload, op, timer>>
             ELSE IF database = 0
             THEN /\ pc' = "threw"
                  /\ payload' = BuildCommandObj(command, cleanOptions)
                  /\ outcome' = [kind |-> "error",
                                 error |-> CatchExecute(DriverError("TypeError", {"message"}))]
                  /\ UNCHANGED <<op, timer>>
             ELSE /\ pc' = "awaiting"
                  /\ payload' = BuildCommandObj(command, cleanOptions)
                  /\ op' = "pending"
                  /\ timer' = "armed"
                  /\ UNCHANGED outcome
    /\ UNCHANGED <<vcall, vresult, driverResult, files, now, spills>>

\* executeCommand called with a database
ExecuteCommand(command, options) ==
    /\ ExecuteCommandOn(1, command, options)
    /\ UNCHANGED <<readVars, connVars, toolVars, histVars>>

\* db.command resolves first and the result is returned as it is
DbResolveInline(result) ==
    /\ pc = "awaiting" /\ op = "pending"
    /\ ~ShouldSpill(JsonLength(result), ctl.outputToFile, ctl.forceOutput)
    /\ op' = "settled"
    /\ driverResult' = result
    /\ pc' = "returned"
    /\ outcome' = [kind |-> "value", value |-> result]
    /\ UNCHANGED <<readVars, connVars, toolVars, histVars, vcall, vresult, call, ctl, validated, payload, timer, files, now, filesBefore, spills>>

\* db.command resolves first and the result goes to a temp file: the path is
\* made from the time t and fs.writeFile is called
DbResolveSpill(result, t) ==
    /\ pc = "awaiting" /\ op = "pending"
    /\ ShouldSpill(JsonLength(result), ctl.outputToFile, ctl.forceOutput)
    /\ t >= now
    /\ op' = "settled"
    /\ driverResult' = result
    /\ pc' = "spilling"
    /\ spills' = [spills EXCEPT ![1] = [state |-> "writing", t |-> t,
                                        data |-> result, pos |-> -1]]
    /\ now' = t
    /\ UNCHANGED <<readVars, connVars, toolVars, histVars, vcall, vresult, call, ctl, validated, payload, timer,
                   outcome, files, filesBefore>>

\* another executeCommand call, in progress beside the one the variables
\* follow, has come to writeResultToTempFile with its result at time t
SecondSpill(result, t) ==
    /\ spills[2].state = "idle"
    /\ t >= now
    /\ spills' = [spills EXCEPT ![2] = [state |-> "writing", t |-> t,
                                        data |-> result, pos |-> -1]]
    /\ now' = t
    /\ UNCHANGED <<readVars, connVars, toolVars, histVars, vcall, vresult, pc, call, ctl, validated, payload, op,
                   timer, driverResult, outcome, files, filesBefore>>

\* writeResultToTempFile of writer w ends with this outcome, and with it the
\* executeCommand that called it
SpillEnds(w, out) ==
    IF w = 1
    THEN /\ pc' = IF out.kind = "error" THEN "threw" ELSE "returned"
         /\ outcome' = out
         /\ spills' = [spills EXCEPT ![1] = NoSpill]
    ELSE /\ spills' = [spills EXCEPT ![2] = [state |-> "settled", outcome |-> out]]
         /\ UNCHANGED <<pc, outcome>>

\* the next file system call of fs.writeFile in the spill of writer w: it
\* fails, what was written before staying in the file, or it is done
SpillWrites(w, fault) ==
    /\ spills[w].state = "writing"
    /\ IF fault = "writeFile"
       THEN /\ SpillEnds(w, [kind |-> "error",
                             error |-> CatchExecute(FileOperationError(fault))])
            /\ UNCHANGED files
       ELSE /\ files' = WriteStep(files, spills[w])
            /\ LET length == PrettyLength(spills[w].data)
                   pos == IF spills[w].pos = -1 THEN 0
                          ELSE spills[w].pos + PieceLength(length - spills[w].pos)
               IN spills' = [spills EXCEPT ![w].pos = pos,
                                           ![w].state = IF pos = length THEN "stat"
                                                        ELSE "writing"]
            /\ UNCHANGED <<pc, outcome>>
    /\ UNCHANGED <<readVars, connVars, toolVars, histVars, vcall, vresult, call, ctl, validated, payload, op,
                   timer, driverResult, now, filesBefore>>

\* fs.stat of the file written settles in the spill of writer w: the record
\* carries the size the file has now
SpillStats(w, fault) ==
    /\ spills[w].state = "stat"
    /\ SpillEnds(w, IF fault = "stat"
                    THEN [kind |-> "error",
                          error |-> CatchExecute(FileOperationError(fault))]
                    ELSE [kind |-> "spill",
                          record |-> SpillRecord(FileSize(files[TempFilePath(spills[w].t)]),
                                                 spills[w].t)])
    /\ UNCHANGED <<readVars, connVars, toolVars, histVars, vcall, vresult, call, ctl, validated, payload, op,
                   timer, driverResult, files, now, filesBefore>>

\* db.command rejects first
DbReject(error) ==
    /\ pc = "awaiting" /\ op = "pending"
    /\ op' = "settled"
    /\ pc' = "threw"
    /\ outcome' = [kind |-> "error", error |-> CatchExecute(error)]
    /\ UNCHANGED <<readVars, connVars, toolVars, histVars, vcall, vresult, call, ctl, validated, payload, timer,
                   driverResult, files, now, filesBefore, spills>>

\* the timer of withTimeout fires while db.command is still pending
TimerFires ==
    /\ pc = "awaiting" /\ timer = "armed"
    /\ timer' = "fired"
    /\ pc' = "threw"
    /\ outcome' = [kind |-> "error",
                   error |-> CatchExecute(CreateCommandError("TIMEOUT_ERROR",
                                 Obj(<<Prop("timeoutMs", Num(ctl.timeout))>>)))]
    /\ UNCHANGED <<readVars, connVars, toolVars, histVars, vcall, vresult, call, ctl, validated, payload, op,
                   driverResult, files, now, filesBefore, spills>>

\* a late completion of db.command that still writes its result to a temp file
DbSettlesLate_StillSpills ==
    /\ pc # "awaiting" /\ op = "pending"
    /\ op' = "settled"
    /\ files' = WriteFile(files, TempFilePath(now), [d |-> 1])
    /\ UNCHANGED <<readVars, connVars, toolVars, histVars, vcall, vresult, pc, call, ctl, validated, payload, timer,
                   driverResult, outcome, now, filesBefore, spills>>

\* the loser of the race completes: db.command settles after the timeout
DbSettlesLate ==
    /\ pc # "awaiting" /\ op = "pending"
    /\ op' = "settled"
    /\ UNCHANGED <<readVars, connVars, toolVars, histVars, vcall, vresult, pc, call, ctl, validated, payload, timer,
                   driverResult, outcome, files, now, filesBefore, spills>>

\* the loser of the race completes: the timer fires after db.command settled
TimerFiresLate ==
    /\ pc # "awaiting" /\ timer = "armed"
    /\ timer' = "fired"
    /\ UNCHANGED <<readVars, connVars, toolVars, histVars, vcall, vresult, pc, call, ctl, validated, payload, op,
                   driverResult, outcome, files, now, filesBefore, spills>>

-----------------------------------------------------------------------------
(* validateCommand called directly *)

Validate ==
    /\ vresult = "pending"
    /\ vresult' = ValidateCommand(vcall.command, vcall.options)
    /\ UNCHANGED <<readVars, connVars, toolVars, histVars, vcall, pc, call, ctl, validated, payload, op, timer,
                   driverResult, outcome, files, now, filesBefore, spills>>

-----------------------------------------------------------------------------
(* path.normalize, path.basename and path.join (POSIX) *)

\* s.split('/') from position i on, cur being the segment begun
RECURSIVE SplitAt(_, _, _)
SplitAt(s, i, cur) ==
    IF i > Len(s) THEN <<cur>>
    ELSE IF SubSeq(s, i, i) = "/" THEN <<cur>> \o SplitAt(s, i + 1, "")
    ELSE SplitAt(s, i + 1, cur \o SubSeq(s, i, i))

Split(s) == SplitAt(s, 1, "")

\* segments.join('/')
RECURSIVE JoinSegments(_, _)
JoinSegments(segments, i) ==
    IF i > Len(segments) THEN ""
    ELSE (IF i = 1 THEN "" ELSE "/") \o segments[i] \o JoinSegments(segments, i + 1)

\* normalizeString: '.' and empty segments dropped, '..' resolved against the
\* segment before it and kept only where the path may climb above its start
RECURSIVE NormalizeSegments(_, _, _, _)
NormalizeSegments(segments, i, res, allowAboveRoot) ==
    IF i > Len(segments) THEN res
    ELSE LET seg == segments[i]
             next == IF seg = "" \/ seg = "." THEN res
                     ELSE IF seg = ".."
                     THEN IF Len(res) > 0 /\ res[Len(res)] # ".."
                          THEN SubSeq(res, 1, Len(res) - 1)
                          ELSE IF allowAboveRoot THEN Append(res, "..") ELSE res
                     ELSE Append(res, seg)
         IN NormalizeSegments(segments, i + 1, next, allowAboveRoot)

\* path.normalize(path)
Normalize(path) ==
    IF Len(path) = 0 THEN "."
    ELSE LET isAbsolute == SubSeq(path, 1, 1) = "/"
             trailingSeparator == SubSeq(path, Len(path), Len(path)) = "/"
             body == JoinSegments(
                         NormalizeSegments(Split(path), 1, <<>>, ~isAbsolute), 1)
         IN IF Len(body) = 0
            THEN IF isAbsolute THEN "/" ELSE IF trailingSeparator THEN "./" ELSE "."
            ELSE (IF isAbsolute THEN "/" ELSE "") \o body
                 \o (IF trailingSeparator THEN "/" ELSE "")

\* path.basename(path): what follows the last separator, trailing ones aside
Basename(path) ==
    LET named == SelectSeq(Split(path), LAMBDA seg : seg # "")
    IN IF Len(named) = 0 THEN "" ELSE named[Len(named)]

\* path.join(a, b)
Join(a, b) ==
    LET joined == IF Len(a) = 0 THEN b
                  ELSE IF Len(b) = 0 THEN a
                  ELSE a \o "/" \o b
    IN Normalize(joined)

\* sanitizeFilePath
SanitizeFilePath(filePath) ==
    LET normalizedPath == Normalize(filePath)
        baseName == Basename(normalizedPath)
    IN Join(TmpDir, baseName)

-----------------------------------------------------------------------------
(* The file system readFileChunk looks at: the temp directory and, beside    *)
(* it, directories and files the server never writes                         *)

Directories == {"/", "/tmp", "/etc", "/srv", "/srv/data"}

\* a document whose only member is a text
TextDocument(text) == Obj(<<Prop("s", Str(text))>>)

\* files outside the temp directory
OutsideFiles ==
    [p \in {"/etc/passwd", "/srv/data/file.txt"} |->
        IF p = "/etc/passwd" THEN FileOf(TextDocument("root"))
        ELSE FileOf(TextDocument("outside the temp directory"))]

\* files in the temp directory that no spill of this process wrote
LeftoverFiles ==
    [p \in {"/tmp/file.txt", "/tmp/passwd"} |->
        IF p = "/tmp/file.txt" THEN FileOf(TextDocument("xEx"))
        ELSE FileOf(TextDocument("x"))]

\* every file there is: the temp directory and the files outside it
Disk(tmp) ==
    [p \in DOMAIN tmp \cup DOMAIN OutsideFiles |->
        IF p \in DOMAIN tmp THEN tmp[p] ELSE OutsideFiles[p]]

ChildOf(dir, name) == IF dir = "/" THEN "/" \o name ELSE dir \o "/" \o name

ParentOf(dir) ==
    LET segments == Split(dir)
    IN IF Len(segments) <= 2 THEN "/"
       ELSE JoinSegments(SubSeq(segments, 1, Len(segments) - 1), 1)

\* the kernel's walk along the segments of a path, from cur; "" when a
\* component is missing or a file stands where a directory is needed
RECURSIVE Walk(_, _, _, _)
Walk(fs, cur, segments, i) ==
    IF i > Len(segments) THEN cur
    ELSE IF cur \notin Directories THEN ""
    ELSE LET seg == segments[i]
         IN IF seg = "" \/ seg = "." THEN Walk(fs, cur, segments, i + 1)
            ELSE IF seg = ".." THEN Walk(fs, ParentOf(cur), segments, i + 1)
            ELSE IF ChildOf(cur, seg) \in Directories \cup DOMAIN fs
            THEN Walk(fs, ChildOf(cur, seg), segments, i + 1)
            ELSE ""

\* the file or directory a path names for a process in directory wd; "" for none
Resolve(fs, wd, path) ==
    IF Len(path) = 0 THEN ""
    ELSE Walk(fs, IF SubSeq(path, 1, 1) = "/" THEN "/" ELSE wd, Split(path), 1)

-----------------------------------------------------------------------------
(* The state before any readFileChunk or connection call *)

NoRead == [filePath |-> "", offset |-> -1, length |-> -1]
NoStep == [pc |-> "idle"]
NoReader == [state |-> "idle"]
NoCaller == [pc |-> "idle"]

\* the callers of connectToMongoDB and disconnectFromMongoDB
Callers == {1, 2}

NoTool == [name |-> ""]
NoConnTool == [name |-> "", arguments |-> Obj(<<>>), response |-> NoOutcome]
NoSeen == [call |-> NoRead]
NoEnv == [v \in {"MONGO_HOST", "MONGO_PORT", "MONGO_DATABASE", "MONGO_USER",
                 "MONGO_PASSWORD"} |-> ""]

ToolIdle ==
    /\ client = 0
    /\ db = 0
    /\ env = NoEnv
    /\ tcall = NoTool
    /\ ctool = NoConnTool
    /\ tresponse = NoOutcome
    /\ dbOps = <<>>
    /\ reported = "none"

ReadIdle ==
    /\ rcall = NoRead
    /\ rresult = NoOutcome
    /\ rstep = NoStep
    /\ fsCalls = <<>>
    /\ handles = <<>>
    /\ reader = NoReader
    /\ rseen = NoSeen

ConnIdle ==
    /\ mongoClient = 0
    /\ mongoDb = 0
    /\ clients = <<>>
    /\ callers = [c \in Callers |-> NoCaller]
    /\ overlapped = FALSE

-----------------------------------------------------------------------------
(* readFileChunk *)

Min(a, b) == IF a < b THEN a ELSE b
Max(a, b) == IF a > b THEN a ELSE b

\* the failures put into handle.read from outside the model of the disk
ReadFaults == {"none", "read"}

\* what readFileChunk throws when the file system call fn failed
Thrown(fn) == [kind |-> "error", error |-> FileOperationError(fn)]

\* the file systems a directory may be on
FileSystems == {"ext", "tmpfs"}

\* stats.size of a directory: a block of 4096 bytes on ext and, on tmpfs, 20
\* bytes for each entry, "." and ".." among them
DirectorySize(fs, dir, fileSystem) ==
    IF fileSystem = "tmpfs"
    THEN 20 * (2 + Cardinality({p \in (DOMAIN fs \cup Directories) \ {dir} :
                                   ParentOf(p) = dir}))
    ELSE 4096

\* a readFileChunk without the finally block: the handle is closed on the way
\* out of a successful read only
ReadStep_NoFinally(fs, wd, held, asked, step, fault, fileSystem) ==
    LET sanitizedPath == SanitizeFilePath(asked.filePath)
        issue(fn) == <<[fn |-> fn, path |-> IF fn = "stat" THEN asked.filePath
                                           ELSE sanitizedPath]>>
        settled(out) == [step |-> NoStep, calls |-> <<>>, handles |-> held,
                         result |-> out]
        closing(table, out) ==
            [step |-> [pc |-> "close", fd |-> step.fd, pending |-> out],
             calls |-> issue("close"), handles |-> table, result |-> NoOutcome]
    IN CASE step.pc = "open" ->
            LET handle == Resolve(fs, wd, sanitizedPath)
            IN IF handle = "" THEN settled(Thrown("open"))
               ELSE [step |-> [pc |-> "stat", handle |-> handle, fd |-> Len(held) + 1],
                     calls |-> issue("stat"),
                     handles |-> Append(held, [path |-> handle, position |-> 0]),
                     result |-> NoOutcome]
         [] step.pc = "stat" ->
            LET stats == Resolve(fs, wd, asked.filePath)
            IN IF stats = "" THEN settled(Thrown("stat"))
               ELSE IF asked.length < 0 THEN settled(Thrown("alloc"))
               ELSE [step |-> [pc |-> "read", handle |-> step.handle, fd |-> step.fd,
                               size |-> IF stats \in Directories
                                        THEN DirectorySize(fs, stats, fileSystem)
                                        ELSE FileSize(fs[stats])],
                     calls |-> issue("read"), handles |-> held, result |-> NoOutcome]
         [] step.pc = "read" ->
            IF asked.length > 0 /\ (step.handle \in Directories \/ fault = "read")
            THEN settled(Thrown("read"))
            ELSE LET bytes == IF step.handle \in Directories THEN <<>>
                              ELSE ContentBytes(fs[step.handle])
                     position == IF asked.offset < 0 THEN held[step.fd].position
                                 ELSE asked.offset
                     bytesRead == Min(asked.length, Max(0, Len(bytes) - position))
                 IN closing(IF asked.offset < 0
                            THEN [held EXCEPT ![step.fd].position = @ + bytesRead]
                            ELSE held,
                            [kind |-> "value",
                             chunk |-> Utf8Decode(
                                 SubSeq(bytes, position + 1, position + bytesRead), 1),
                             offset |-> asked.offset,
                             length |-> bytesRead,
                             totalSize |-> step.size,
                             hasMore |-> asked.offset + bytesRead < step.size])
         [] step.pc = "close" ->
            [step |-> NoStep, calls |-> <<>>,
             handles |-> SubSeq(held, 1, step.fd - 1)
                         \o SubSeq(held, step.fd + 1, Len(held)),
             result |-> step.pending]

\* a readFileChunk with a cursor: it keeps the handle of a file open from one
\* call to the next and reads on from the position the handle has got to
ReadStep_FromCursor(fs, wd, held, asked, step, fault, fileSystem) ==
    LET sanitizedPath == SanitizeFilePath(asked.filePath)
        issue(fn) == <<[fn |-> fn, path |-> IF fn = "stat" THEN asked.filePath
                                           ELSE sanitizedPath]>>
        settled(table, out) == [step |-> NoStep, calls |-> <<>>, handles |-> table,
                                result |-> out]
    IN CASE step.pc = "open" ->
            LET handle == Resolve(fs, wd, sanitizedPath)
                kept == {fd \in DOMAIN held : held[fd].path = handle}
            IN IF handle = "" THEN settled(held, Thrown("open"))
               ELSE IF kept # {}
               THEN [step |-> [pc |-> "stat", handle |-> handle,
                               fd |-> CHOOSE fd \in kept : TRUE],
                     calls |-> issue("stat"), handles |-> held, result |-> NoOutcome]
               ELSE [step |-> [pc |-> "stat", handle |-> handle, fd |-> Len(held) + 1],
                     calls |-> issue("stat"),
                     handles |-> Append(held, [path |-> handle, position |-> 0]),
                     result |-> NoOutcome]
         [] step.pc = "stat" ->
            LET stats == Resolve(fs, wd, asked.filePath)
            IN IF stats = "" THEN settled(held, Thrown("stat"))
               ELSE IF asked.length < 0 THEN settled(held, Thrown("alloc"))
               ELSE [step |-> [pc |-> "read", handle |-> step.handle, fd |-> step.fd,
                               size |-> IF stats \in Directories
                                        THEN DirectorySize(fs, stats, fileSystem)
                                        ELSE FileSize(fs[stats])],
                     calls |-> issue("read"), handles |-> held, result |-> NoOutcome]
         [] step.pc = "read" ->
            IF asked.length > 0 /\ (step.handle \in Directories \/ fault = "read")
            THEN settled(held, Thrown("read"))
            ELSE LET bytes == IF step.handle \in Directories THEN <<>>
                              ELSE ContentBytes(fs[step.handle])
                     position == held[step.fd].position
                     bytesRead == Min(asked.length, Max(0, Len(bytes) - position))
                 IN settled([held EXCEPT ![step.fd].position = @ + bytesRead],
                            [kind |-> "value",
                             chunk |-> Utf8Decode(
                                 SubSeq(bytes, position + 1, position + bytesRead), 1),
                             offset |-> asked.offset,
                             length |-> bytesRead,
                             totalSize |-> step.size,
                             hasMore |-> asked.offset + bytesRead < step.size])

\* readFileChunk(asked) goes on when the file system call it awaits has
\* settled, on the disk fs of that moment, for a process in directory wd
\* that holds the open handles `held`, each with the file it is open on and
\* its position in it: where the call stands then, the file system call it
\* issues next (handle.read and handle.close with the path the handle was
\* opened on), the handles the process holds then, and what the call returns
\* or throws once it has settled.
\* fs.open resolves the sanitized path and gives a new handle at position 0,
\* fs.stat resolves the path as it was given; Buffer.alloc rejects a negative
\* length; handle.read of no bytes resolves without a read, of a directory it
\* fails, at a position it is given it leaves the handle's own position
\* alone, and for a negative position it reads at the handle's own position
\* and moves it on; the handle is closed in the finally block before the
\* call settles
ReadStep(fs, wd, held, asked, step, fault, fileSystem) ==
    LET sanitizedPath == SanitizeFilePath(asked.filePath)
        issue(fn) == <<[fn |-> fn, path |-> IF fn = "stat" THEN asked.filePath
                                           ELSE sanitizedPath]>>
        closing(table, out) ==
            [step |-> [pc |-> "close", fd |-> step.fd, pending |-> out],
             calls |-> issue("close"), handles |-> table, result |-> NoOutcome]
    IN CASE step.pc = "open" ->
            LET handle == Resolve(fs, wd, sanitizedPath)
            IN IF handle = ""
               THEN [step |-> NoStep, calls |-> <<>>, handles |-> held,
                     result |-> Thrown("open")]
               ELSE [step |-> [pc |-> "stat", handle |-> handle, fd |-> Len(held) + 1],
                     calls |-> issue("stat"),
                     handles |-> Append(held, [path |-> handle, position |-> 0]),
                     result |-> NoOutcome]
         [] step.pc = "stat" ->
            LET stats == Resolve(fs, wd, asked.filePath)
            IN IF stats = "" THEN closing(held, Thrown("stat"))
               ELSE IF asked.length < 0 THEN closing(held, Thrown("alloc"))
               ELSE [step |-> [pc |-> "read", handle |-> step.handle, fd |-> step.fd,
                               size |-> IF stats \in Directories
                                        THEN DirectorySize(fs, stats, fileSystem)
                                        ELSE FileSize(fs[stats])],
                     calls |-> issue("read"), handles |-> held, result |-> NoOutcome]
         [] step.pc = "read" ->
            IF asked.length > 0 /\ (step.handle \in Directories \/ fault = "read")
            THEN closing(held, Thrown("read"))
            ELSE LET bytes == IF step.handle \in Directories THEN <<>>
                              ELSE ContentBytes(fs[step.handle])
                     position == IF asked.offset < 0 THEN held[step.fd].position
                                 ELSE asked.offset
                     bytesRead == Min(asked.length, Max(0, Len(bytes) - position))
                 IN closing(IF asked.offset < 0
                            THEN [held EXCEPT ![step.fd].position = @ + bytesRead]
                            ELSE held,
                            [kind |-> "value",
                             chunk |-> Utf8Decode(
                                 SubSeq(bytes, position + 1, position + bytesRead), 1),
                             offset |-> asked.offset,
                             length |-> bytesRead,
                             totalSize |-> step.size,
                             hasMore |-> asked.offset + bytesRead < step.size])
         [] step.pc = "close" ->
            [step |-> NoStep, calls |-> <<>>,
             handles |-> SubSeq(held, 1, step.fd - 1)
                         \o SubSeq(held, step.fd + 1, Len(held)),
             result |-> step.pending]

\* the calls of this name in a log of file system calls
CallsOf(log, fn) == Len(SelectSeq(log, LAMBDA c : c.fn = fn))

\* readFileChunk(filePath, offset, length) up to its first await: fs.open of
\* the sanitized path
ReadCalled(filePath, offset, length) ==
    /\ rcall = NoRead
    /\ rcall' = [filePath |-> filePath, offset |-> offset, length |-> length]
    /\ rstep' = [pc |-> "open"]
    /\ fsCalls' = <<[fn |-> "open", path |-> SanitizeFilePath(filePath)]>>
    /\ UNCHANGED <<cwd, rresult, handles>>

\* readFileChunk called from outside the tool handler
ReadFileChunk(filePath, offset, length) ==
    /\ ReadCalled(filePath, offset, length)
    /\ UNCHANGED <<execVars, connVars, toolVars, histVars>>

\* the file system call readFileChunk awaits settles and the call goes on to
\* its next await or to its end; fs.stat answers as the file system the path
\* is on does
ReadResumes(fault) ==
    /\ rstep # NoStep
    /\ \E fileSystem \in IF rstep.pc = "stat" THEN FileSystems ELSE {"ext"} :
          LET next == ReadStep(Disk(files), cwd, handles, rcall, rstep, fault, fileSystem)
          IN /\ rstep' = next.step
             /\ fsCalls' = fsCalls \o next.calls
             /\ handles' = next.handles
             /\ rresult' = next.result
    /\ UNCHANGED <<execVars, connVars, toolVars, histVars, cwd, rcall, reader>>

\* the caller has taken the result of its readFileChunk
ReadReturn ==
    /\ rresult # NoOutcome
    /\ reader = NoReader
    /\ rcall' = NoRead
    /\ rresult' = NoOutcome
    /\ fsCalls' = <<>>
    /\ UNCHANGED <<execVars, connVars, toolVars, histVars, cwd, rstep, handles, reader>>

-----------------------------------------------------------------------------
(* A caller that reads a spilled result back with readFileChunk: consecutive *)
(* chunks of one size from offset 0 up to the size the spill record gave     *)

StartReading(chunkSize) ==
    /\ pc = "returned" /\ outcome.kind = "spill"
    /\ reader = NoReader /\ rcall = NoRead
    /\ reader' = [ state |-> "reading",
                   filePath |-> outcome.record.filePath,
                   size |-> outcome.record.size,
                   data |-> driverResult,
                   chunkSize |-> chunkSize,
                   offset |-> 0,
                   text |-> "",
                   total |-> 0,
                   flagged |-> TRUE ]
    /\ UNCHANGED <<execVars, connVars, toolVars, histVars, cwd, rcall, rresult, rstep, fsCalls, handles>>

\* the caller asks for the chunk at its offset
ReadNextChunk ==
    /\ reader.state = "reading"
    /\ ReadFileChunk(reader.filePath, reader.offset, reader.chunkSize)
    /\ UNCHANGED reader

\* the caller takes the chunk and moves its offset on by the size it asks for
TakeChunk ==
    /\ reader.state = "reading"
    /\ rresult # NoOutcome
    /\ reader' =
           IF rresult.kind = "error" THEN [reader EXCEPT !.state = "failed"]
           ELSE LET last == reader.offset + reader.chunkSize >= reader.size
                IN [reader EXCEPT
                       !.state = IF last THEN "done" ELSE "reading",
                       !.offset = @ + reader.chunkSize,
                       !.text = @ \o rresult.chunk,
                       !.total = @ + rresult.length,
                       !.flagged = @ /\ (rresult.hasMore = ~last)]
    /\ rcall' = NoRead
    /\ rresult' = NoOutcome
    /\ fsCalls' = <<>>
    /\ UNCHANGED <<execVars, connVars, toolVars, histVars, cwd, rstep, handles>>

StopReading ==
    /\ reader.state \in {"done", "failed"}
    /\ reader' = NoReader
    /\ UNCHANGED <<execVars, connVars, toolVars, histVars, cwd, rcall, rresult, rstep, fsCalls, handles>>

-----------------------------------------------------------------------------
(* connectToMongoDB and disconnectFromMongoDB. A MongoClient object is an    *)
(* index into clients, whose entry holds its url and its state: "new" once   *)
(* constructed, "open" once connect() has resolved, "closed" once close()    *)
(* has resolved. A call runs from one await to the next in one step.         *)

\* most MongoClient objects constructed in a run
MaxClients == 3

\* new MongoClient(url, ...) throws for a url that is no connection string
InvalidUrl(url) ==
    /\ SubSeq(url, 1, Len("mongodb://")) # "mongodb://"
    /\ SubSeq(url, 1, Len("mongodb+srv://")) # "mongodb+srv://"

\* an if (mongoClient) that never sees a client
HasClient_Never == FALSE

\* if (mongoClient)
HasClient == mongoClient # 0

\* a call has reached an await and has not resumed
InProgress(c) == callers[c].pc \in {"closing", "connecting"}

\* the call that caller c starts overlaps a call in progress, one of the two
\* being a connect
Overlaps(c, fn) ==
    \E other \in Callers \ {c} :
        InProgress(other) /\ (fn = "connect" \/ callers[other].fn = "connect")

Returned(fn, ret) == [pc |-> "done", fn |-> fn, ret |-> ret]

\* connectToMongoDB from new MongoClient(url, ...) to await mongoClient.connect();
\* stored and made are mongoClient and the clients as the statements before
\* have left them
ConstructClient(c, stored, made, url) ==
    IF InvalidUrl(url)
    THEN /\ mongoClient' = stored
         /\ clients' = made
         /\ callers' = [callers EXCEPT ![c] = Returned("connect", FALSE)]
    ELSE /\ Len(made) < MaxClients
         /\ clients' = Append(made, [url |-> url, state |-> "new"])
         /\ mongoClient' = Len(made) + 1
         /\ callers' = [callers EXCEPT ![c] =
                           [pc |-> "connecting", fn |-> "connect",
                            target |-> Len(made) + 1]]

\* connectToMongoDB(url) up to its first await
ConnectToMongoDB(c, url) ==
    /\ callers[c].pc = "idle"
    /\ overlapped' = (overlapped \/ Overlaps(c, "connect"))
    /\ IF HasClient
       THEN /\ callers' = [callers EXCEPT ![c] =
                              [pc |-> "closing", fn |-> "connect",
                               target |-> mongoClient, url |-> url]]
            /\ UNCHANGED <<mongoClient, mongoDb, clients>>
       ELSE /\ ConstructClient(c, mongoClient, clients, url)
            /\ UNCHANGED mongoDb
    /\ UNCHANGED <<execVars, readVars>>

\* connectToMongoDB resumes after await mongoClient.close()
ConnectClosed(c, closed) ==
    /\ callers[c].pc = "closing" /\ callers[c].fn = "connect"
    /\ IF closed
       THEN /\ mongoDb' = 0
            /\ ConstructClient(c, 0,
                   [clients EXCEPT ![callers[c].target].state = "closed"],
                   callers[c].url)
       ELSE /\ callers' = [callers EXCEPT ![c] = Returned("connect", FALSE)]
            /\ UNCHANGED <<mongoClient, mongoDb, clients>>
    /\ UNCHANGED <<execVars, readVars, overlapped>>

\* connectToMongoDB resumes after await mongoClient.connect()
ConnectOpened(c, opened) ==
    /\ callers[c].pc = "connecting"
    /\ IF opened
       THEN /\ clients' = [clients EXCEPT ![callers[c].target].state = "open"]
            /\ IF mongoClient = 0
               THEN /\ callers' = [callers EXCEPT ![c] = Returned("connect", FALSE)]
                    /\ UNCHANGED mongoDb
               ELSE /\ mongoDb' = mongoClient
                    /\ callers' = [callers EXCEPT ![c] = Returned("connect", TRUE)]
       ELSE /\ callers' = [callers EXCEPT ![c] = Returned("connect", FALSE)]
            /\ UNCHANGED <<mongoDb, clients>>
    /\ UNCHANGED <<execVars, readVars, mongoClient, overlapped>>

\* a disconnect that forgets the handles without closing the client
DisconnectFromMongoDB_DropsHandle(c) ==
    /\ callers[c].pc = "idle"
    /\ overlapped' = (overlapped \/ Overlaps(c, "disconnect"))
    /\ callers' = [callers EXCEPT ![c] = Returned("disconnect", HasClient)]
    /\ mongoClient' = 0
    /\ mongoDb' = 0
    /\ UNCHANGED <<execVars, readVars, clients>>

\* disconnectFromMongoDB() up to its await
DisconnectFromMongoDB(c) ==
    /\ callers[c].pc = "idle"
    /\ overlapped' = (overlapped \/ Overlaps(c, "disconnect"))
    /\ callers' = [callers EXCEPT ![c] =
                      IF HasClient
                      THEN [pc |-> "closing", fn |-> "disconnect",
                            target |-> mongoClient]
                      ELSE Returned("disconnect", FALSE)]
    /\ UNCHANGED <<execVars, readVars, mongoClient, mongoDb, clients>>

\* disconnectFromMongoDB resumes after await mongoClient.close()
DisconnectClosed(c, closed) ==
    /\ callers[c].pc = "closing" /\ callers[c].fn = "disconnect"
    /\ callers' = [callers EXCEPT ![c] = Returned("disconnect", closed)]
    /\ IF closed
       THEN /\ clients' = [clients EXCEPT ![callers[c].target].state = "closed"]
            /\ mongoClient' = 0
            /\ mongoDb' = 0
       ELSE UNCHANGED <<mongoClient, mongoDb, clients>>
    /\ UNCHANGED <<execVars, readVars, overlapped>>

\* the caller has taken what its call returned
CallReturns(c) ==
    /\ callers[c].pc = "done"
    /\ callers' = [callers EXCEPT ![c] = NoCaller]
    /\ UNCHANGED <<execVars, readVars, mongoClient, mongoDb, clients, overlapped>>

\* getMongoClient(), getMongoDb(), isMongoConnected()
GetMongoClient == mongoClient
GetMongoDb == mongoDb
IsMongoConnected == mongoClient # 0 /\ mongoDb # 0

-----------------------------------------------------------------------------
(* The call-tool handler of index_new.ts: the tools query, aggregate,        *)
(* run_command, read_command_result, connect and disconnect, and the answer  *)
(* to a name that is no tool. The model follows one call of the first four   *)
(* at a time and, beside it, one call of connect or disconnect, which runs   *)
(* its connectToMongoDB or disconnectFromMongoDB as caller 1.                *)

StartsWith(s, prefix) ==
    Len(s) >= Len(prefix) /\ SubSeq(s, 1, Len(prefix)) = prefix

\* a check of the collection name that lets every name through
IsSystemCollection_Never(name) == FALSE

\* collection.collectionName.startsWith('system.')
IsSystemCollection(name) == StartsWith(name, "system.")

\* the tools the handler refuses while client is null
RequiresConnection == <<"query", "aggregate", "run_command", "read_command_result">>

\* the length read_command_result reads when none is given
DEFAULT_READ_LENGTH == 50000

\* a response { content: [{ type: "text", text }] }
TextResponse(text) == [kind |-> "text", text |-> text]

\* a text response made of a prefix and of the error caught: its message or,
\* for an error that is no Error object, its JSON. The error stands for that
\* part of the text
ErrorResponse(prefix, error) == [kind |-> "text", text |-> prefix, error |-> error]

\* `${value}` for a string or a number
ToText(v) == IF IsStr(v) THEN v.str ELSE ToString(v.num)

\* JSON.parse of a filter text: the text of the empty object parses, and a
\* text that does not begin a JSON value is a syntax error
ParsesAsJson(text) == text = "{}"

\* the handler for the tool of this name, from the request to its answer or
\* to its first await: the response, NoOutcome while the handler awaits; the
\* operations it issues on the database, each with the filter or the
\* pipeline it sends; and the function of db-commands it calls, if any. The
\* response is a text or, where db.collection is evaluated on a null db
\* outside every try, an exception that leaves the handler; inside the try
\* of collStats the same exception is caught and answered as a text
ToolOutcome(name, arguments) ==
    LET collection == Get(arguments, "collection").str
        filter == Get(arguments, "filter")
        command == Get(arguments, "command")
        options == OrElse(Get(arguments, "options"), Obj(<<>>))
        filePath == Get(arguments, "filePath")
        respond(text) == [response |-> TextResponse(text), ops |-> <<>>, calls |-> "none"]
        nullDb == [response |-> [kind |-> "exception",
                                 error |-> DriverError("TypeError", {"message"})],
                   ops |-> <<>>, calls |-> "none"]
        operate(method, sent) ==
            [response |-> NoOutcome,
             ops |-> <<[op |-> method, collection |-> collection, sent |-> sent]>>,
             calls |-> "none"]
        invoke(fn) == [response |-> NoOutcome, ops |-> <<>>, calls |-> fn]
    IN IF client = 0 /\ Includes(RequiresConnection, name)
       THEN respond("Error: Not connected to MongoDB. Please use the 'connect' tool first.")
       ELSE CASE name = "query" ->
                 IF db = 0 THEN nullDb
                 ELSE IF IsSystemCollection(collection)
                 THEN respond("Error: Access to system collections is not allowed")
                 ELSE IF Truthy(filter) /\ IsStr(filter) /\ ~ParsesAsJson(filter.str)
                 THEN respond("Error: Invalid filter format: must be a valid JSON object")
                 ELSE IF Truthy(filter) /\ ~IsStr(filter) /\ ~IsObj(filter)
                 THEN respond("Error: Query filter must be a plain object or ObjectId")
                 ELSE operate("find",
                              IF Truthy(filter) /\ ~IsStr(filter) THEN filter
                              ELSE Obj(<<>>))
              [] name = "aggregate" ->
                 IF db = 0 THEN nullDb
                 ELSE IF ~IsArr(Get(arguments, "pipeline"))
                 THEN respond("Error: Pipeline must be an array")
                 ELSE IF IsSystemCollection(collection)
                 THEN respond("Error: Access to system collections is not allowed")
                 ELSE operate("aggregate", Get(arguments, "pipeline"))
              [] name = "run_command" ->
                 IF ~Truthy(command) \/ ~IsStr(command)
                 THEN respond("Error: Command name is required")
                 ELSE IF /\ command.str = "collStats"
                         /\ ~Truthy(OrElse(OrElse(Get(options, "collection"),
                                                  Get(options, "collStats")), Str("")))
                 THEN respond("Error: Collection name is required for collStats")
                 ELSE IF /\ command.str = "collStats" /\ db = 0
                         /\ ~Truthy(Get(options, "outputToFile"))
                 THEN [response |-> ErrorResponse("Error: collStats command failed: ",
                                                  DriverError("TypeError", {"message"})),
                       ops |-> <<>>, calls |-> "none"]
                 ELSE invoke("executeCommand")
              [] name = "read_command_result" ->
                 IF ~Truthy(filePath) \/ ~IsStr(filePath)
                 THEN respond("Error: File path is required")
                 ELSE invoke("readFileChunk")
              [] OTHER -> respond("Unknown tool")

\* a call of the tool query, aggregate, run_command or read_command_result,
\* or of a name that is no tool, from the request to the response or to the
\* first await of the handler: toArray(), executeCommand or readFileChunk.
\* The client of the model has one such call in progress at a time; a
\* connect or a disconnect call may be in progress beside it
CallTool(name, arguments) ==
    /\ tcall = NoTool
    /\ tcall' = [name |-> name, arguments |-> arguments]
    /\ tresponse' = ToolOutcome(name, arguments).response
    /\ dbOps' = ToolOutcome(name, arguments).ops
    /\ CASE ToolOutcome(name, arguments).calls = "executeCommand" ->
             /\ ExecuteCommandOn(db, Get(arguments, "command").str,
                                 OrElse(Get(arguments, "options"), Obj(<<>>)))
             /\ UNCHANGED readVars
         [] ToolOutcome(name, arguments).calls = "readFileChunk" ->
             /\ ReadCalled(Get(arguments, "filePath").str,
                           IF IsUndefined(Get(arguments, "offset")) THEN 0
                           ELSE Get(arguments, "offset").num,
                           IF IsUndefined(Get(arguments, "length"))
                           THEN DEFAULT_READ_LENGTH
                           ELSE Get(arguments, "length").num)
             /\ UNCHANGED <<execVars, reader>>
         [] OTHER -> UNCHANGED <<execVars, readVars>>
    /\ UNCHANGED <<connVars, histVars, client, db, env, ctool>>

\* the handler goes on after its await and answers: toArray() has resolved
\* with the documents, here none, or has failed; executeCommand or
\* readFileChunk has returned or thrown
ToolAnswers(fails) ==
    /\ tcall # NoTool /\ tresponse = NoOutcome
    /\ LET collection == Get(tcall.arguments, "collection").str
           failed(verb) == TextResponse("Error: Failed to " \o verb \o " collection "
                                        \o collection \o ": " \o "operation failed")
           record(r) == Obj(<<Prop("filePath", Str(r.filePath)), Prop("size", Num(r.size)),
                              Prop("timestamp", Str(r.timestamp)),
                              Prop("notice", Str(r.notice))>>)
           chunk(r) == Obj(<<Prop("chunk", Str(r.chunk)), Prop("offset", Num(r.offset)),
                             Prop("length", Num(r.length)),
                             Prop("totalSize", Num(r.totalSize)),
                             Prop("hasMore", Bool(r.hasMore))>>)
       IN CASE tcall.name \in {"query", "aggregate"} ->
               tresponse' = IF fails THEN failed(tcall.name)
                            ELSE TextResponse(StringifyPretty(Arr(<<>>), 0))
            [] tcall.name = "run_command" ->
               /\ pc \in {"returned", "threw"}
               /\ tresponse' =
                      IF outcome.kind = "error"
                      THEN ErrorResponse(
                               IF call.command = "collStats"
                               THEN "Error: collStats command failed: "
                               ELSE "Error: Command execution failed: ",
                               outcome.error)
                      ELSE TextResponse(StringifyPretty(
                               IF outcome.kind = "spill" THEN record(outcome.record)
                               ELSE outcome.value, 0))
            [] tcall.name = "read_command_result" ->
               /\ rresult # NoOutcome
               /\ tresponse' =
                      IF rresult.kind = "error"
                      THEN ErrorResponse("Error: Failed to read command result: ",
                                         rresult.error)
                      ELSE TextResponse(StringifyPretty(chunk(rresult), 0))
    /\ UNCHANGED <<execVars, readVars, connVars, histVars, client, db, env, tcall, dbOps, ctool>>

\* encodeURIComponent: the letters, the digits and -_.!~*'() stay as they
\* are; of the others, those the model uses
RECURSIVE EncodeURIComponent(_, _)
EncodeURIComponent(text, i) ==
    IF i > Len(text) THEN ""
    ELSE LET c == SubSeq(text, i, i)
             unreserved == "ABCDEFGHIJKLMNOPQRSTUVWXYZabcdefghijklmnopqrstuvwxyz"
                           \o "0123456789-_.!~*'()"
         IN (IF StrIncludes(unreserved, c) THEN c
             ELSE CASE c = "@" -> "%40"
                    [] c = ":" -> "%3A"
                    [] c = "/" -> "%2F"
                    [] c = " " -> "%20")
            \o EncodeURIComponent(text, i + 1)

\* the connection url the connect tool builds from its arguments
BuildUrl(arguments) ==
    LET host == Get(arguments, "host")
        port == Get(arguments, "port")
        database == Get(arguments, "database")
        user == Get(arguments, "user")
        password == Get(arguments, "password")
    IN "mongodb://"
       \o (IF Truthy(user) /\ Truthy(password)
           THEN EncodeURIComponent(ToText(user), 1) \o ":"
                \o EncodeURIComponent(ToText(password), 1) \o "@"
           ELSE "")
       \o ToText(OrElse(host, Str("localhost"))) \o ":"
       \o ToText(OrElse(port, Num(27017)))
       \o (IF Truthy(database) THEN "/" \o ToText(database) ELSE "")

\* parseInt(text, 10) of a text that begins with a decimal digit: the number
\* its leading digits write, read from position i on after the digits of value
RECURSIVE ParseInt(_, _, _)
ParseInt(text, i, value) ==
    IF i > Len(text) \/ ~StrIncludes("0123456789", SubSeq(text, i, i)) THEN value
    ELSE ParseInt(text, i + 1,
             value * 10 + (CHOOSE d \in 0..9 : ToString(d) = SubSeq(text, i, i)))

\* getMongoConfig(): the configuration read from the environment, a variable
\* that is not set being undefined
GetMongoConfig ==
    LET processEnv(name) == IF env[name] = "" THEN Undefined ELSE Str(env[name])
    IN [ host |-> OrElse(processEnv("MONGO_HOST"), Str("localhost")),
         port |-> Num(ParseInt(OrElse(processEnv("MONGO_PORT"), Str("27017")).str, 1, 0)),
         database |-> OrElse(processEnv("MONGO_DATABASE"), Str("test")),
         user |-> processEnv("MONGO_USER"),
         password |-> processEnv("MONGO_PASSWORD") ]

\* case "connect" up to the first await of connectToMongoDB
ToolConnect(arguments) ==
    /\ ctool = NoConnTool /\ callers[1].pc = "idle"
    /\ ctool' = [name |-> "connect", arguments |-> arguments, response |-> NoOutcome]
    /\ ConnectToMongoDB(1, BuildUrl(arguments))
    /\ UNCHANGED <<execVars, readVars, histVars, client, db, env, tcall, tresponse, dbOps>>

\* case "disconnect" up to the await of disconnectFromMongoDB
ToolDisconnect ==
    /\ ctool = NoConnTool /\ callers[1].pc = "idle"
    /\ ctool' = [name |-> "disconnect", arguments |-> Obj(<<>>), response |-> NoOutcome]
    /\ DisconnectFromMongoDB(1)
    /\ UNCHANGED <<execVars, readVars, histVars, client, db, env, tcall, tresponse, dbOps>>

\* updateLegacyClientReferences() and the answer of connect or disconnect
ToolConnectionAnswer ==
    /\ ctool # NoConnTool /\ ctool.response = NoOutcome
    /\ callers[1].pc = "done"
    /\ CallReturns(1)
    /\ client' = mongoClient
    /\ db' = mongoDb
    /\ ctool' = [ctool EXCEPT !.response = TextResponse(
           IF callers[1].fn = "connect"
           THEN IF callers[1].ret THEN "Successfully connected to MongoDB"
                ELSE "Failed to connect to MongoDB"
           ELSE IF callers[1].ret THEN "Successfully disconnected from MongoDB"
                ELSE "Not connected to MongoDB")]
    /\ reported' = IF callers[1].fn = "connect"
                   THEN IF callers[1].ret THEN "connected" ELSE "failed"
                   ELSE IF callers[1].ret THEN "disconnected" ELSE reported
    /\ UNCHANGED <<execVars, readVars, env, tcall, tresponse, dbOps, rseen>>

\* the response has gone back to the caller
ToolReturn ==
    /\ tresponse # NoOutcome
    /\ tcall' = NoTool
    /\ tresponse' = NoOutcome
    /\ dbOps' = <<>>
    /\ UNCHANGED <<execVars, readVars, connVars, histVars, client, db, env, ctool>>

\* the response of connect or disconnect has gone back to the caller
ToolConnectionReturn ==
    /\ ctool.response # NoOutcome
    /\ ctool' = NoConnTool
    /\ UNCHANGED <<execVars, readVars, connVars, histVars, client, db, env, tcall, tresponse, dbOps>>

-----------------------------------------------------------------------------
(* Inputs *)

SeqRange(seq) == { seq[i] : i \in 1..Len(seq) }

\* the increasing tuples of at most n indices into props, no key picked twice
RECURSIVE Picks(_, _)
Picks(props, n) ==
    IF n = 0 THEN { <<>> }
    ELSE LET shorter == Picks(props, n - 1)
             longest == { pick \in shorter : Len(pick) = n - 1 }
         IN shorter \cup
            { next \in { Append(pick, i) : pick \in longest, i \in 1..Len(props) } :
                \A a \in 1..(n - 1) :
                    next[a] < next[n] /\ props[next[a]].k # props[next[n]].k }

\* the options bags with at most n of the given properties (a tuple), in the
\* tuple's order and with no key twice
BagsOf(props, n) ==
    { Obj([i \in 1..Len(pick) |-> props[pick[i]]]) : pick \in Picks(props, n) }

\* a value holding the key operator d levels down, through objects and arrays
RECURSIVE Wrapped(_, _)
Wrapped(operator, d) ==
    IF d = 1 THEN Obj(<<Prop(operator, Num(1))>>)
    ELSE IF d % 2 = 0 THEN Arr(<<Str("a"), Wrapped(operator, d - 1)>>)
    ELSE Obj(<<Prop("stage", Wrapped(operator, d - 1))>>)

\* the property placing the key operator at depth d of an options bag
OperatorAt(operator, d) ==
    IF d = 1 THEN Prop(operator, Num(1))
    ELSE Prop("nest" \o ToString(d), Wrapped(operator, d - 1))

OperatorProps ==
    [i \in 1..(Len(DANGEROUS_OPERATORS) * MaxDepth) |->
        OperatorAt(DANGEROUS_OPERATORS[((i - 1) % Len(DANGEROUS_OPERATORS)) + 1],
                   ((i - 1) \div Len(DANGEROUS_OPERATORS)) + 1)]

\* properties without a dangerous operator key: other command names, the
\* collection name, operator names as values only, look-alike keys
PlainProps ==
    << Prop("ping", Num(1)),
       Prop("collStats", Str("orders")),
       Prop("connect", Bool(TRUE)),
       Prop("dropDatabase", Num(1)),
       Prop("collection", Str("users")),
       Prop("collection", Str("")),
       Prop("scale", Num(1024)),
       Prop("note", Str("$where")),
       Prop("text", Str("{\"$out\":1}")),
       Prop("list", Arr(<<Str("$merge"), Null>>)),
       Prop("$whereabouts", Obj(<<Prop("$match", Bool(FALSE))>>)),
       Prop("$where", Undefined) >>

ValidateProps == PlainProps \o OperatorProps

ValidateCommands == SeqRange(ALLOWED_COMMANDS) \cup {"dropDatabase", "invalidCommand"}

ValidateInputs ==
    { [command |-> c, options |-> o] :
        c \in ValidateCommands, o \in BagsOf(ValidateProps, MaxKeys) }

NoFiles == [p \in {} |-> NoResult]

-----------------------------------------------------------------------------
(* validateCommand as a pure function: the inputs are drawn, then it is applied *)

InitValidate ==
    /\ vcall \in ValidateInputs
    /\ vresult = "pending"
    /\ pc = "idle"
    /\ call = NoCall
    /\ ctl = NoControl
    /\ validated = NoObject
    /\ payload = NoObject
    /\ op = "none"
    /\ timer = "none"
    /\ driverResult = NoResult
    /\ outcome = NoOutcome
    /\ files = NoFiles
    /\ now = 0
    /\ filesBefore = NoFiles
    /\ spills = NoSpills
    /\ cwd = TmpDir
    /\ ReadIdle
    /\ ConnIdle
    /\ ToolIdle

NextValidate == Validate

SpecValidate == InitValidate /\ [][NextValidate]_vars

-----------------------------------------------------------------------------
(* executeCommand: the calls, the driver's answers and the timer *)

\* the caller takes the outcome; the next call may start
Return ==
    /\ pc \in {"returned", "threw"}
    /\ pc' = "idle"
    /\ call' = NoCall
    /\ ctl' = NoControl
    /\ validated' = NoObject
    /\ payload' = NoObject
    /\ op' = "none"
    /\ timer' = "none"
    /\ driverResult' = NoResult
    /\ outcome' = NoOutcome
    /\ filesBefore' = files
    /\ UNCHANGED <<readVars, connVars, toolVars, histVars, vcall, vresult, files, now, spills>>

ExecProps ==
    << Prop("collection", Str("users")),
       Prop("collection", Str("")),
       Prop("collStats", Str("orders")),
       Prop("dropDatabase", Num(1)),
       Prop("ping", Num(1)),
       Prop("$where", Str("1")),
       Prop("scale", Num(1024)),
       Prop("outputToFile", Bool(TRUE)),
       Prop("outputToFile", Str("no")),
       Prop("forceOutput", Bool(TRUE)),
       Prop("forceOutput", Num(0)),
       Prop("timeout", Num(5)),
       Prop("timeout", Str("5")) >>

\* bags of the test suite and bags carrying all three control options
ExtraBags ==
    { Obj(<<Prop("outputToFile", Bool(TRUE)), Prop("forceOutput", Bool(TRUE)),
            Prop("timeout", Num(5))>>),
      Obj(<<Prop("collection", Str("test_collection"))>>),
      Obj(<<Prop("outputToFile", Null), Prop("forceOutput", Obj(<<>>)),
            Prop("timeout", Arr(<<>>)), Prop("scale", Num(1))>>) }

ExecCommands == {"dbStats", "collStats", "ping", "dropDatabase", "invalidCommand"}

ExecBags == BagsOf(ExecProps, MaxKeys) \cup ExtraBags

\* documents the driver answers with: serialized lengths 20, 100000, 100001,
\* and one whose file takes fs.writeFile more than one write call
DriverResults ==
    { [d |-> pad] : pad \in {12, MAX_RESPONSE_SIZE - 8, MAX_RESPONSE_SIZE - 7,
                             kWriteFileMaxChunkSize + 1} }

\* errors the driver rejects with: a server error (it has a code), a plain Error
DriverErrors ==
    { DriverError("MongoServerError", {"message", "code"}),
      DriverError("Error", {"message"}) }

Init ==
    /\ vcall = NoCall
    /\ vresult = "pending"
    /\ pc = "idle"
    /\ call = NoCall
    /\ ctl = NoControl
    /\ validated = NoObject
    /\ payload = NoObject
    /\ op = "none"
    /\ timer = "none"
    /\ driverResult = NoResult
    /\ outcome = NoOutcome
    /\ files = NoFiles
    /\ now = 0
    /\ filesBefore = NoFiles
    /\ spills = NoSpills
    /\ cwd = TmpDir
    /\ ReadIdle
    /\ ConnIdle
    /\ ToolIdle

Next ==
    \/ \E command \in ExecCommands, options \in ExecBags :
           ExecuteCommand(command, options)
    \/ \E result \in DriverResults : DbResolveInline(result)
    \/ \E result \in DriverResults : DbResolveSpill(result, 0)
    \/ \E fault \in FsFaults \ {"stat"} : SpillWrites(1, fault)
    \/ \E fault \in FsFaults \ {"writeFile"} : SpillStats(1, fault)
    \/ \E error \in DriverErrors : DbReject(error)
    \/ TimerFires
    \/ DbSettlesLate
    \/ TimerFiresLate
    \/ Return

Spec == Init /\ [][Next]_vars

-----------------------------------------------------------------------------
(* Spilled results and readFileChunk: one client that spills results with    *)
(* executeCommand, reads them back, and calls readFileChunk on paths of its  *)
(* own choosing                                                              *)

\* largest chunk size the client reads a spilled result back with
MaxChunk == 3

FileCommands == {"dbStats"}

FileBags == { Obj(<<>>), Obj(<<Prop("outputToFile", Bool(TRUE))>>) }

\* documents the driver answers with: ASCII and not
FileResults == { TextDocument("x"), TextDocument("E"), TextDocument("xEx") }

\* the path of the test suite, the degenerate paths, paths into and out of the
\* temp directory, absolute and relative, and the path of a spilled result
ReadPaths ==
    { "/path/to/file.txt", "", ".", "..", "/", "a/..", "../..",
      "/tmp/file.txt", "file.txt", "data/file.txt", "/srv/data/file.txt",
      "/etc/passwd", "../etc/passwd", "/tmp/passwd", "/tmp/../etc/passwd",
      "/tmp/missing.json", TempFilePath(0),
      "mongodb-result-" \o Timestamp(0) \o ".json" }

\* offsets and lengths: inside the files, at their ends, beyond them, and
\* values no chunk has
ReadRanges ==
    { <<0, 5>>, <<0, 1000>>, <<0, 0>>, <<1, 1>>, <<11, 5>>, <<14, 5>>, <<17, 1>>,
      <<20, 1>>, <<-1, 5>>, <<-2, 5>>, <<-2, 0>>, <<0, -1>> }

WorkingDirectories == {"/tmp", "/srv"}

InitFiles ==
    /\ vcall = NoCall
    /\ vresult = "pending"
    /\ pc = "idle"
    /\ call = NoCall
    /\ ctl = NoControl
    /\ validated = NoObject
    /\ payload = NoObject
    /\ op = "none"
    /\ timer = "none"
    /\ driverResult = NoResult
    /\ outcome = NoOutcome
    /\ files = LeftoverFiles
    /\ now = 0
    /\ filesBefore = LeftoverFiles
    /\ spills = NoSpills
    /\ cwd \in WorkingDirectories
    /\ ReadIdle
    /\ ConnIdle
    /\ ToolIdle

NextFiles ==
    \/ /\ reader = NoReader /\ rcall = NoRead
       /\ \E command \in FileCommands, options \in FileBags :
              ExecuteCommand(command, options)
    \/ \E result \in FileResults : DbResolveInline(result)
    \/ \E result \in FileResults : DbResolveSpill(result, 0)
    \/ \E fault \in FsFaults \ {"stat"} : SpillWrites(1, fault)
    \/ \E fault \in FsFaults \ {"writeFile"} : SpillStats(1, fault)
    \/ Return
    \/ /\ pc = "idle" /\ reader = NoReader
       /\ \E filePath \in ReadPaths, range \in ReadRanges :
              ReadFileChunk(filePath, range[1], range[2])
       /\ UNCHANGED reader
    \/ \E fault \in ReadFaults : ReadResumes(fault)
    \/ ReadReturn
    \/ \E chunkSize \in 1..MaxChunk : StartReading(chunkSize)
    \/ ReadNextChunk
    \/ TakeChunk
    \/ StopReading

SpecFiles == InitFiles /\ [][NextFiles]_vars

-----------------------------------------------------------------------------
(* Two spills: an executeCommand call whose result is written to a temp file *)
(* and another beside it or after it, in the same millisecond or in a later  *)
(* one, and readFileChunk calls of the first temp file going on beside them  *)

\* latest time (ms after the process started) of a spill in a run of spills
MaxSpillClock == 1

\* the process runs in the temp directory
InitSpills == InitFiles /\ cwd = TmpDir

NextSpills ==
    \/ \E command \in FileCommands, options \in FileBags :
           ExecuteCommand(command, options)
    \/ DbResolveInline(TextDocument("x"))
    \/ \E result \in {TextDocument("x"), TextDocument("xEx")}, t \in 0..MaxSpillClock :
           DbResolveSpill(result, t)
    \/ \E t \in 0..MaxSpillClock : SecondSpill(TextDocument("x"), t)
    \/ \E w \in Writers : SpillWrites(w, "none")
    \/ \E w \in Writers : SpillStats(w, "none")
    \/ /\ ReadFileChunk(TempFilePath(0), 0, 1000)
       /\ UNCHANGED reader
    \/ ReadResumes("none")
    \/ ReadReturn

SpecSpills == InitSpills /\ [][NextSpills]_vars

-----------------------------------------------------------------------------
(* Reads among other operations: readFileChunk calls with spills, connects   *)
(* and disconnects between them and beside them, one of the reads being      *)
(* remembered with its result and the temp directory and the clients of its  *)
(* time. The file a read is about is not written while the read goes on;     *)
(* spills to other files are. After the remembered read, handle.read may     *)
(* fail, and connects and disconnects come, with two clients fewer than      *)
(* MaxClients allows                                                         *)

\* the read that has just finished is the one remembered from now on
Remember ==
    /\ rseen = NoSeen
    /\ rresult # NoOutcome /\ reader = NoReader
    /\ rseen' = [call |-> rcall, result |-> rresult, calls |-> fsCalls,
                 files |-> files, clients |-> Len(clients)]
    /\ UNCHANGED <<execVars, readVars, connVars, toolVars, reported>>

NextReads ==
    \/ /\ callers[1].pc = "idle"
       /\ ExecuteCommand("dbStats", Obj(<<Prop("outputToFile", Bool(TRUE))>>))
    \/ /\ rcall = NoRead
       /\ DbResolveSpill(TextDocument("xEx"), 0)
    \/ /\ rseen # NoSeen
       /\ \/ rcall = NoRead /\ DbResolveSpill(TextDocument("x"), 0)
          \/ DbResolveSpill(TextDocument("x"), MaxSpillClock)
    \/ SpillWrites(1, "none")
    \/ SpillStats(1, "none")
    \/ Return
    \/ /\ ~(spills[1].state # "idle" /\ spills[1].t = 0)
       /\ \E range \in {<<0, 5>>, <<11, 5>>, <<-2, 5>>} :
              ReadFileChunk(TempFilePath(0), range[1], range[2])
       /\ UNCHANGED reader
    \/ /\ ~(spills[1].state # "idle" /\ spills[1].t = 0) /\ rseen # NoSeen
       /\ ReadFileChunk("/tmp/file.txt", 0, 5)
       /\ UNCHANGED reader
    \/ ReadResumes("none")
    \/ rseen # NoSeen /\ ReadResumes("read")
    \/ ReadReturn
    \/ Remember
    \/ /\ pc = "idle" /\ rseen # NoSeen
       /\ \/ /\ Len(clients) + 3 <= MaxClients
             /\ ConnectToMongoDB(1, "mongodb://localhost:27017")
          \/ \E closed \in BOOLEAN : ConnectClosed(1, closed)
          \/ \E opened \in BOOLEAN : ConnectOpened(1, opened)
          \/ DisconnectFromMongoDB(1)
          \/ \E closed \in BOOLEAN : DisconnectClosed(1, closed)
          \/ CallReturns(1)
       /\ UNCHANGED <<toolVars, histVars>>

SpecReads == InitSpills /\ [][NextReads]_vars

-----------------------------------------------------------------------------
(* The connection: one caller whose calls follow one another (SpecConnect),  *)
(* and callers whose calls interleave at the awaits (SpecRace)               *)

\* the url of the test suite, another connection string, and no connection string
Urls == {"mongodb://localhost:27017", "mongodb+srv://cluster.example.net/app",
         "localhost:27017"}

ConnectionCalls(c) ==
    /\ \/ \E url \in Urls : ConnectToMongoDB(c, url)
       \/ \E closed \in BOOLEAN : ConnectClosed(c, closed)
       \/ \E opened \in BOOLEAN : ConnectOpened(c, opened)
       \/ DisconnectFromMongoDB(c)
       \/ \E closed \in BOOLEAN : DisconnectClosed(c, closed)
       \/ CallReturns(c)
    /\ UNCHANGED <<toolVars, histVars>>

NextConnect == ConnectionCalls(1)

SpecConnect == Init /\ [][NextConnect]_vars

NextRace == \E c \in Callers : ConnectionCalls(c)

SpecRace == Init /\ [][NextRace]_vars

-----------------------------------------------------------------------------
(* The tools: the server as main() leaves it, connected to the url of its    *)
(* command line, then tool calls, a connect or a disconnect among them going *)
(* on beside a query, a run_command or a read_command_result                 *)

Environments ==
    { NoEnv,
      [NoEnv EXCEPT !["MONGO_HOST"] = "db.internal", !["MONGO_PORT"] = "27018",
                    !["MONGO_DATABASE"] = "app", !["MONGO_USER"] = "svc",
                    !["MONGO_PASSWORD"] = "s3cret"] }

ConnectArguments ==
    { Obj(<<>>),
      Obj(<<Prop("host", Str("example.org"))>>),
      Obj(<<Prop("host", Str("example.org")), Prop("port", Num(27018)),
            Prop("database", Str("shop"))>>),
      Obj(<<Prop("user", Str("admin")), Prop("password", Str("p@ss"))>>),
      Obj(<<Prop("user", Str("admin"))>>) }

CollectionNames == {"users", "system.users", "system.", "System.users", "system"}

QueryArguments ==
    { Obj(<<Prop("collection", Str(name))>> \o rest) :
        name \in CollectionNames,
        rest \in { <<>>,
                   <<Prop("filter", Obj(<<>>))>>,
                   <<Prop("filter", Str("{}"))>>,
                   <<Prop("filter", Str("age > 21"))>>,
                   <<Prop("filter", Obj(<<Prop("$where", Str("sleep(1)"))>>))>>,
                   <<Prop("filter", Arr(<<>>))>> } }

AggregateArguments ==
    { Obj(<<Prop("collection", Str(name))>> \o rest) :
        name \in CollectionNames,
        rest \in { <<>>,
                   <<Prop("pipeline", Arr(<<>>))>>,
                   <<Prop("pipeline", Arr(<<Obj(<<Prop("$out", Str("users"))>>)>>))>>,
                   <<Prop("pipeline",
                          Arr(<<Obj(<<Prop("$match",
                                Obj(<<Prop("$where", Str("sleep(1)"))>>))>>)>>))>>,
                   <<Prop("pipeline", Str("[]"))>> } }

CommandArguments ==
    { Obj(<<>>),
      Obj(<<Prop("command", Str("ping"))>>),
      Obj(<<Prop("command", Str("dropDatabase"))>>),
      Obj(<<Prop("command", Str("dbStats")),
            Prop("options", Obj(<<Prop("outputToFile", Bool(TRUE))>>))>>),
      Obj(<<Prop("command", Str("collStats"))>>),
      Obj(<<Prop("command", Str("collStats")),
            Prop("options", Obj(<<Prop("collection", Str("users"))>>))>>) }

ReadArguments ==
    { Obj(<<>>),
      Obj(<<Prop("filePath", Str(TempFilePath(0)))>>),
      Obj(<<Prop("filePath", Str(TempFilePath(0))), Prop("offset", Num(11)),
            Prop("length", Num(0))>>) }

InitTools ==
    /\ vcall = NoCall
    /\ vresult = "pending"
    /\ pc = "idle"
    /\ call = NoCall
    /\ ctl = NoControl
    /\ validated = NoObject
    /\ payload = NoObject
    /\ op = "none"
    /\ timer = "none"
    /\ driverResult = NoResult
    /\ outcome = NoOutcome
    /\ files = NoFiles
    /\ now = 0
    /\ filesBefore = NoFiles
    /\ spills = NoSpills
    /\ cwd = TmpDir
    /\ ReadIdle
    /\ mongoClient = 1
    /\ mongoDb = 1
    /\ clients = <<[url |-> "mongodb://localhost:27017", state |-> "open"]>>
    /\ callers = [c \in Callers |-> NoCaller]
    /\ overlapped = FALSE
    /\ client = 1
    /\ db = 1
    /\ env \in Environments
    /\ tcall = NoTool
    /\ ctool = NoConnTool
    /\ tresponse = NoOutcome
    /\ dbOps = <<>>
    /\ reported = "none"

\* the tool calls made while a connect or a disconnect tool call is awaiting
BesideArguments ==
    [ query |-> Obj(<<Prop("collection", Str("users"))>>),
      run_command |-> Obj(<<Prop("command", Str("ping"))>>),
      read_command_result |-> Obj(<<Prop("filePath", Str(TempFilePath(0)))>>) ]

Beside == \E name \in DOMAIN BesideArguments :
              tcall = [name |-> name, arguments |-> BesideArguments[name]]

NextTools ==
    \/ /\ ctool = NoConnTool
       /\ \/ \E arguments \in QueryArguments : CallTool("query", arguments)
          \/ \E arguments \in AggregateArguments : CallTool("aggregate", arguments)
          \/ \E arguments \in CommandArguments : CallTool("run_command", arguments)
          \/ \E arguments \in ReadArguments : CallTool("read_command_result", arguments)
          \/ \E name \in {"drop", "list_collections"} : CallTool(name, Obj(<<>>))
    \/ /\ ctool # NoConnTool
       /\ \E name \in DOMAIN BesideArguments : CallTool(name, BesideArguments[name])
    \/ \E fails \in BOOLEAN : ToolAnswers(fails)
    \/ /\ pc = "idle" /\ rcall = NoRead
       /\ ToolReturn
    \/ DbResolveInline(TextDocument("x"))
    \/ DbResolveSpill(TextDocument("x"), 0)
    \/ SpillWrites(1, "none")
    \/ SpillStats(1, "none")
    \/ DbReject(DriverError("MongoServerError", {"message", "code"}))
    \/ /\ tresponse # NoOutcome
       /\ Return
    \/ ReadResumes("none")
    \/ /\ tresponse # NoOutcome
       /\ ReadReturn
    \/ /\ tcall = NoTool
       /\ \E arguments \in ConnectArguments : ToolConnect(arguments)
    \/ /\ tcall # NoTool /\ Beside
       /\ ToolConnect(Obj(<<>>))
    \/ /\ tcall = NoTool \/ Beside
       /\ ToolDisconnect
    \/ /\ \/ \E closed \in BOOLEAN : ConnectClosed(1, closed)
          \/ \E opened \in BOOLEAN : ConnectOpened(1, opened)
          \/ \E closed \in BOOLEAN : DisconnectClosed(1, closed)
       /\ UNCHANGED <<toolVars, histVars>>
    \/ ToolConnectionAnswer
    \/ ToolConnectionReturn

SpecTools == InitTools /\ [][NextTools]_vars

-----------------------------------------------------------------------------
(* Vocabulary of the properties *)

AllowedSet == SeqRange(ALLOWED_COMMANDS)
DangerousSet == SeqRange(DANGEROUS_OPERATORS)
ControlKeys == {"outputToFile", "forceOutput", "timeout"}

\* the kind of a thrown error; a driver's error has none of the seven
ErrorCode(error) == IF "details" \in DOMAIN error THEN error.code ELSE "untagged"

\* executeCommand threw an error of this kind
Threw(code) ==
    pc = "threw" /\ outcome.kind = "error" /\ ErrorCode(outcome.error) = code

\* a dangerous operator is a key, at any depth, of the value's JSON text
RECURSIVE HasOperatorKey(_)
HasOperatorKey(v) ==
    IF IsObj(v)
    THEN \E i \in 1..Len(v.obj) :
             /\ ~IsUndefined(v.obj[i].v)
             /\ (v.obj[i].k \in DangerousSet \/ HasOperatorKey(v.obj[i].v))
    ELSE IF IsArr(v) THEN \E i \in 1..Len(v.arr) : HasOperatorKey(v.arr[i])
    ELSE FALSE

\* a top-level key other than the command is itself an allowed command
HasOtherCommandKey(command, options) ==
    \E i \in 1..Len(options.obj) :
        options.obj[i].k # command /\ options.obj[i].k \in AllowedSet

\* the call in progress fails validation on its stripped options
InvalidCall ==
    /\ pc # "idle"
    /\ ValidateCommand(call.command, StripControl(call.options)) # NoError

\* a path naming an entry of the temp directory itself: the temp directory,
\* one separator and one name that is neither '.' nor '..'
DirectChildOfTmp(path) ==
    LET prefix == TmpDir \o "/"
        name == SubSeq(path, Len(prefix) + 1, Len(path))
    IN /\ Len(path) > Len(prefix)
       /\ SubSeq(path, 1, Len(prefix)) = prefix
       /\ ~StrIncludes(name, "/")
       /\ name \notin {".", ".."}

\* the file of the temp directory that the last readFileChunk was asked for by name
AskedFile == SanitizeFilePath(rcall.filePath)

\* the clients that have been opened and not closed
OpenClients == { i \in 1..Len(clients) : clients[i].state = "open" }

-----------------------------------------------------------------------------
(* Properties *)

\* C1: db.command is invoked only for a command that validateCommand passed,
\* on the stripped options; a call that fails validation throws the
\* validator's error, issues no database command and writes no file.
C1_ValidationGatesDatabase ==
    /\ InvalidCall =>
           /\ Threw(ValidateCommand(call.command, StripControl(call.options)))
           /\ payload = NoObject
           /\ op = "none"
           /\ files = filesBefore
    /\ payload # NoObject =>
           /\ validated = StripControl(call.options)
           /\ ValidateCommand(call.command, validated) = NoError

\* C1 witness: a call failed validation after an earlier call had spilled; the
\* file is still there and no command went out
C1_Witness ==
    /\ Threw("DANGEROUS_OPERATION")
    /\ payload = NoObject
    /\ files # NoFiles

\* C2: a command outside the allowlist fails with COMMAND_NOT_ALLOWED, in
\* validateCommand and so in executeCommand, whatever the options.
C2_NotAllowedRejected ==
    (pc # "idle" /\ call.command \notin AllowedSet) =>
        /\ ValidateCommand(call.command, call.options) = "COMMAND_NOT_ALLOWED"
        /\ ValidateCommand(call.command, validated) = "COMMAND_NOT_ALLOWED"
        /\ Threw("COMMAND_NOT_ALLOWED")
        /\ payload = NoObject

\* C2 witness: the test suite's invalidCommand, here with options that would
\* fail the other checks too
C2_Witness ==
    /\ call.command = "invalidCommand"
    /\ HasKey(call.options, "ping")
    /\ HasKey(call.options, "$where")
    /\ Threw("COMMAND_NOT_ALLOWED")

\* C3: dbStats with {dropDatabase: 1} is rejected with
\* INVALID_COMMAND_STRUCTURE and never reaches the database.
C3_DropDatabaseRejected ==
    ( /\ pc # "idle"
      /\ call.command = "dbStats"
      /\ call.options = Obj(<<Prop("dropDatabase", Num(1))>>) ) =>
        /\ Threw("INVALID_COMMAND_STRUCTURE")
        /\ payload = NoObject

\* C4: an allowlisted command whose options carry a top-level key that is
\* another allowlisted command fails with INVALID_COMMAND_STRUCTURE.
C4_InjectedCommandRejected ==
    ( /\ vresult # "pending"
      /\ vcall.command \in AllowedSet
      /\ HasOtherCommandKey(vcall.command, vcall.options) ) =>
        vresult = "INVALID_COMMAND_STRUCTURE"

\* C4 witness: the injected key sits beside a dangerous operator key, and the
\* structure error is the one reported
C4_Witness ==
    /\ vresult = "INVALID_COMMAND_STRUCTURE"
    /\ vcall.command = "collStats"
    /\ HasKey(vcall.options, "ping")
    /\ HasOperatorKey(vcall.options)

\* C5 as claimed: an allowlisted command whose options carry a dangerous
\* operator as an object key at any depth fails with DANGEROUS_OPERATION.
C5_OperatorKeyRejected ==
    ( /\ vresult # "pending"
      /\ vcall.command \in AllowedSet
      /\ HasOperatorKey(vcall.options) ) =>
        vresult = "DANGEROUS_OPERATION"

\* C5 amended: an allowlisted command whose options carry a dangerous
\* operator as a key at any depth of their JSON text fails with
\* DANGEROUS_OPERATION, unless a top-level key is another allowlisted command:
\* then it fails with INVALID_COMMAND_STRUCTURE.
C5_OperatorKeyRejectedUnlessInjected ==
    ( /\ vresult # "pending"
      /\ vcall.command \in AllowedSet
      /\ HasOperatorKey(vcall.options) ) =>
        vresult = IF HasOtherCommandKey(vcall.command, vcall.options)
                  THEN "INVALID_COMMAND_STRUCTURE"
                  ELSE "DANGEROUS_OPERATION"

\* C5 witness: the operator key lies MaxDepth levels down and is found
C5_Witness ==
    /\ vresult = "DANGEROUS_OPERATION"
    /\ \E d \in 1..Len(DANGEROUS_OPERATORS) :
           \E i \in 1..Len(vcall.options.obj) :
               vcall.options.obj[i] = OperatorAt(DANGEROUS_OPERATORS[d], MaxDepth)
    /\ \A i \in 1..Len(vcall.options.obj) :
           vcall.options.obj[i].k \notin DangerousSet

\* C6: collStats with neither options.collection nor options.collStats set
\* (or both empty) fails in validation, before any database command.
C6_CollStatsNeedsCollection ==
    ( /\ pc # "idle"
      /\ call.command = "collStats"
      /\ ~Truthy(Get(call.options, "collection"))
      /\ ~Truthy(Get(call.options, "collStats")) ) =>
        /\ pc = "threw"
        /\ payload = NoObject
        /\ op = "none"

\* C7: for collStats with options {collection: c}, c not empty, the payload
\* handed to db.command is exactly {collStats: c}.
C7_CollStatsPayload ==
    ( /\ pc # "idle"
      /\ call.command = "collStats"
      /\ Len(call.options.obj) = 1
      /\ call.options.obj[1].k = "collection"
      /\ Truthy(call.options.obj[1].v) ) =>
        payload = Obj(<<Prop("collStats", call.options.obj[1].v)>>)

\* C8: for a call that passed validation, the value under the command key of
\* the payload equals the value under the command key of the object that
\* validateCommand checked.
C8_PayloadMatchesValidated ==
    payload # NoObject =>
        Get(payload, call.command)
            = Get(ValidatedCommandObj(call.command, validated), call.command)

\* C9: outputToFile, forceOutput and timeout are keys neither of the object
\* given to validateCommand nor of the payload given to db.command.
C9_ControlOptionsStripped ==
    pc # "idle" =>
        \A key \in ControlKeys :
            /\ ~HasKey(validated, key)
            /\ payload # NoObject => ~HasKey(payload, key)

\* C9 witness: all three control options were passed, with values that are
\* neither booleans nor numbers, and the command went out
C9_Witness ==
    /\ pc = "awaiting"
    /\ \A key \in ControlKeys : HasKey(call.options, key)
    /\ IsNull(Get(call.options, "outputToFile"))
    /\ IsArr(Get(call.options, "timeout"))
    /\ payload = Obj(<<Prop("dbStats", Num(1)), Prop("scale", Num(1))>>)

\* C10: once db.command has resolved, executeCommand goes for the temp file
\* exactly when (the serialized result is longer than 100000 or outputToFile
\* was set) and forceOutput was not set, and then returns the spill record
\* (or fails writing it); otherwise it returns the driver's result unchanged.
C10_SpillDecision ==
    (pc \in {"returned", "threw"} /\ driverResult # NoResult) =>
        LET size == JsonLength(driverResult)
            wantsFile == Truthy(Get(call.options, "outputToFile"))
            wantsInline == Truthy(Get(call.options, "forceOutput"))
            spill == (size > 100000 \/ wantsFile) /\ ~wantsInline
        IN /\ (pc = "returned" /\ outcome.kind = "spill") => spill
           /\ spill => \/ /\ pc = "returned"
                          /\ outcome.kind = "spill"
                          /\ outcome.record.filePath \in DOMAIN files
                       \/ Threw("FILE_OPERATION_ERROR")
           /\ ~spill => /\ pc = "returned"
                        /\ outcome = [kind |-> "value", value |-> driverResult]
           /\ wantsInline => outcome.kind = "value"
           /\ (size = 100000 /\ ~wantsFile) => outcome.kind = "value"

\* C10 witness: forceOutput wins over an oversized result and outputToFile
C10_Witness ==
    /\ pc = "returned"
    /\ JsonLength(driverResult) > 100000
    /\ Get(call.options, "outputToFile") = Bool(TRUE)
    /\ Get(call.options, "forceOutput") = Bool(TRUE)
    /\ outcome = [kind |-> "value", value |-> driverResult]

\* C11: when the timer fires while db.command is still pending, executeCommand
\* fails with TIMEOUT_ERROR, and the details of a TIMEOUT_ERROR are exactly
\* {timeoutMs: t}, t being options.timeout when it is a number and 30000
\* otherwise.
C11_TimeoutError ==
    LET asked == Get(call.options, "timeout")
        configured == IF IsNum(asked) THEN asked.num ELSE 30000
    IN /\ (pc # "idle" /\ timer = "fired" /\ op = "pending") =>
              Threw("TIMEOUT_ERROR")
       /\ Threw("TIMEOUT_ERROR") =>
              /\ timer = "fired"
              /\ outcome.error.details = Obj(<<Prop("timeoutMs", Num(configured))>>)

\* C11 witness: a call with timeout 5 timed out with db.command still pending
C11_Witness ==
    /\ Threw("TIMEOUT_ERROR")
    /\ op = "pending"
    /\ Get(call.options, "timeout") = Num(5)
    /\ outcome.error.details = Obj(<<Prop("timeoutMs", Num(5))>>)

\* C12: every error executeCommand throws has one of the seven kinds; an error
\* the driver rejected with, whether or not it has a code property of its own,
\* comes out as EXECUTION_ERROR with the driver's error as details.
C12_SevenKinds ==
    pc = "threw" =>
        /\ ErrorCode(outcome.error) \in MongoCommandErrorCodes
        /\ \A error \in DriverErrors :
               (outcome.error = error \/ outcome.error.details = error) =>
                   outcome.error = CreateCommandError("EXECUTION_ERROR", error)

\* C13: whatever path readFileChunk is given, the path it opens names a
\* direct child of the temp directory, never the temp directory or an ancestor.
C13_OpensDirectChild ==
    \A i \in 1..Len(fsCalls) :
        fsCalls[i].fn = "open" => DirectChildOfTmp(fsCalls[i].path)

\* C14: every file system call of readFileChunk (open, stat, read) is given
\* the sanitized path; the caller's path is given to none.
C14_OnlySanitizedPath ==
    \A i \in 1..Len(fsCalls) : fsCalls[i].path = SanitizeFilePath(rcall.filePath)

\* C15: a readFileChunk whose path has a basename naming a file of the temp
\* directory succeeds, whatever the working directory and whether or not the
\* path as given exists, with the bytes of that file and its size as totalSize.
C15_ReadsByBasename ==
    (/\ rcall # NoRead /\ rresult # NoOutcome
     /\ DirectChildOfTmp(AskedFile)
     /\ AskedFile \in DOMAIN files
     /\ rresult # Thrown("read")) =>
        /\ rresult.kind = "value"
        /\ rresult.totalSize = FileSize(files[AskedFile])
        /\ LET bytes == ContentBytes(files[AskedFile])
           IN rresult.chunk =
                  Utf8Decode(SubSeq(bytes, rcall.offset + 1,
                                    rcall.offset + rresult.length), 1)

\* C16: a readFileChunk that succeeds on a file of size S returns the offset
\* it was given, length = min(length, max(0, S - offset)), totalSize = S and
\* hasMore exactly when offset + length < S.
C16_ChunkArithmetic ==
    (rresult.kind = "value" /\ AskedFile \in DOMAIN files) =>
        LET S == FileSize(files[AskedFile])
        IN /\ rresult.offset = rcall.offset
           /\ rresult.length = Min(rcall.length, Max(0, S - rcall.offset))
           /\ rresult.totalSize = S
           /\ rresult.hasMore = (rcall.offset + rresult.length < S)

\* C17: a spilled result read back from the filePath of its record, in
\* consecutive chunks of one size from offset 0 up to the record's size,
\* gives chunks whose concatenation is the text that was written and whose
\* lengths add up to the size, hasMore being true for every chunk but the last.
C17_RoundTrip ==
    reader.state = "done" =>
        /\ reader.text = StringifyPretty(reader.data, 0)
        /\ reader.total = reader.size
        /\ reader.flagged

\* C18: connectToMongoDB returns and never throws, and whenever it has
\* returned false the state is Disconnected: getMongoClient() and getMongoDb()
\* are null and isMongoConnected() is false.
C18_FalseMeansDisconnected ==
    \A c \in Callers :
        callers[c] = Returned("connect", FALSE) =>
            /\ GetMongoClient = 0
            /\ GetMongoDb = 0
            /\ ~IsMongoConnected

\* C19: with calls that follow one another, a connect made while a connection
\* exists closes the old client before it opens the new one: at no moment are
\* two clients open, none is open while the new one is being opened, and when
\* the call has returned true the one open client is the stored handle.
C19_ReconnectClosesFirst ==
    /\ Cardinality(OpenClients) <= 1
    /\ callers[1].pc = "connecting" => OpenClients = {}
    /\ callers[1] = Returned("connect", TRUE) =>
           /\ OpenClients = {mongoClient}
           /\ mongoDb = mongoClient

\* C19 witness: the second of two connects has returned true; the first client
\* is closed, the second is open and stored
C19_Witness ==
    /\ callers[1] = Returned("connect", TRUE)
    /\ Len(clients) = 2
    /\ clients[1].state = "closed"
    /\ clients[2].state = "open"
    /\ mongoClient = 2

\* C20 as claimed: under every interleaving of connect and disconnect calls at
\* most one client is open at any time and every open client is the stored
\* handle.
C20_OneOpenClient ==
    /\ Cardinality(OpenClients) <= 1
    /\ OpenClients \subseteq {mongoClient}

\* C20: as long as no connect call has run while another connect or disconnect
\* call was in progress, at most one client is open at any time and every open
\* client is the stored handle; disconnect calls may overlap one another.
C20_OneOpenClientUnlessConnectOverlaps ==
    ~overlapped => C20_OneOpenClient

\* C20 witness: two disconnect calls are in progress at once on the open,
\* stored client and no connect call has overlapped another call
C20_Witness ==
    /\ ~overlapped
    /\ \A c \in Callers :
           /\ callers[c].pc = "closing"
           /\ callers[c].fn = "disconnect"
           /\ callers[c].target = mongoClient
    /\ OpenClients = {mongoClient}

\* C21: disconnectFromMongoDB returns true exactly when the state was
\* Connected when it was called, and then the handle is closed and cleared;
\* called in the state Disconnected it returns false and changes nothing.
\* (The calls follow one another, so the state a call resumes in is the state
\* it was called in.)
C21_DisconnectIffConnected ==
    [][\A c \in Callers :
           /\ (/\ callers[c].pc = "idle"
               /\ callers'[c].pc # "idle"
               /\ callers'[c].fn = "disconnect") =>
                  IF IsMongoConnected
                  THEN callers'[c].pc = "closing"
                  ELSE /\ callers'[c] = Returned("disconnect", FALSE)
                       /\ UNCHANGED <<mongoClient, mongoDb, clients>>
           /\ (/\ callers[c].pc = "closing"
               /\ callers[c].fn = "disconnect"
               /\ callers'[c].pc = "done") =>
                  /\ callers'[c] = Returned("disconnect", TRUE)
                  /\ clients'[callers[c].target].state = "closed"
                  /\ mongoClient' = 0
                  /\ mongoDb' = 0]_vars

\* C22: when closing the stale client fails in connectToMongoDB, the call
\* still goes on to construct and connect the new client.
C22_StaleCloseIgnored ==
    [][\A c \in Callers :
           (/\ callers[c].pc = "closing"
            /\ callers[c].fn = "connect"
            /\ ~InvalidUrl(callers[c].url)
            /\ callers'[c] # callers[c]) =>
               /\ callers'[c].pc = "connecting"
               /\ mongoClient' = callers'[c].target]_vars

\* C23: between calls the state is Disconnected or Connected: getMongoClient()
\* is null exactly when getMongoDb() is null, isMongoConnected() is true
\* exactly when both are set, true after a connect that returned true and
\* false after a disconnect that returned true.
C23_DisconnectedOrConnected ==
    (\A c \in Callers : ~InProgress(c)) =>
        /\ (GetMongoClient = 0) <=> (GetMongoDb = 0)
        /\ IsMongoConnected <=> (GetMongoClient # 0 /\ GetMongoDb # 0)
        /\ callers[1] = Returned("connect", TRUE) => IsMongoConnected
        /\ callers[1] = Returned("disconnect", TRUE) => ~IsMongoConnected

\* the tool call being answered asks for a collection named system.*
AsksSystemCollection ==
    /\ tcall.name \in {"query", "aggregate"}
    /\ StartsWith(Get(tcall.arguments, "collection").str, "system.")

\* the url the connect call under way was given
UrlUnderWay ==
    IF callers[1].pc = "closing" THEN callers[1].url
    ELSE clients[callers[1].target].url

\* the arguments of connect with each omitted one taken from the environment
\* as getMongoConfig reads it, except that a database named neither in the
\* arguments nor in the environment stays out of the url, where the driver
\* takes it to be test
WithEnvironment(arguments) ==
    LET given(name, fallback) == Prop(name, OrElse(Get(arguments, name), fallback))
    IN Obj(<< given("host", GetMongoConfig.host),
              given("port", GetMongoConfig.port),
              given("database", IF env["MONGO_DATABASE"] = "" THEN Undefined
                                ELSE GetMongoConfig.database),
              given("user", GetMongoConfig.user),
              given("password", GetMongoConfig.password) >>)

\* C24: every tool call, in every connection state, is answered with a text
\* response and no exception leaves the handler
C24_NoExceptionEscapes ==
    tresponse # NoOutcome => tresponse.kind = "text"

\* C25 (as claimed): no find or aggregate is issued on a collection named
\* system.*, and every query or aggregate that names one is answered with
\* the error 'Access to system collections is not allowed'
C25_SystemRequestsRefused ==
    /\ \A i \in DOMAIN dbOps : ~StartsWith(dbOps[i].collection, "system.")
    /\ (AsksSystemCollection /\ tresponse # NoOutcome) =>
           tresponse = TextResponse("Error: Access to system collections is not allowed")

\* C25: no find or aggregate is issued on a collection named system.*; a
\* query or aggregate that names one issues no database operation at all and
\* is answered with the error 'Access to system collections is not allowed',
\* unless the handler stopped before it looked at the name: with the
\* not-connected error when it holds no client, with the failure of
\* db.collection when it holds a client and no database, and with 'Pipeline
\* must be an array' for an aggregate whose pipeline is no array
C25_NoOperationOnSystemCollections ==
    /\ \A i \in DOMAIN dbOps : ~StartsWith(dbOps[i].collection, "system.")
    /\ (AsksSystemCollection /\ tresponse # NoOutcome) =>
           /\ dbOps = <<>>
           /\ tresponse =
                IF client = 0
                THEN TextResponse("Error: Not connected to MongoDB. Please use the 'connect' tool first.")
                ELSE IF db = 0
                THEN [kind |-> "exception", error |-> DriverError("TypeError", {"message"})]
                ELSE IF tcall.name = "aggregate" /\ ~IsArr(Get(tcall.arguments, "pipeline"))
                THEN TextResponse("Error: Pipeline must be an array")
                ELSE TextResponse("Error: Access to system collections is not allowed")

\* a query of system.users, with client and database held, refused
C25_Witness ==
    /\ tcall.name = "query"
    /\ Get(tcall.arguments, "collection") = Str("system.users")
    /\ client # 0 /\ db # 0
    /\ tresponse = TextResponse("Error: Access to system collections is not allowed")
    /\ dbOps = <<>>

\* C26: the connect tool connects to the url made of its arguments, each
\* omitted one of host, port, database, user and password taken from its
\* environment variable when that is set and from the default otherwise
C26_EnvironmentDefaults ==
    (ctool.name = "connect" /\ callers[1].pc \in {"closing", "connecting"}) =>
        UrlUnderWay = BuildUrl(WithEnvironment(ctool.arguments))

\* C27: every failure inside readFileChunk is thrown as an error of kind
\* FILE_OPERATION_ERROR, and a failure of the spill inside executeCommand
\* leaves executeCommand with an error of kind FILE_OPERATION_ERROR, not
\* EXECUTION_ERROR
C27_FileFailuresTagged ==
    /\ rresult.kind = "error" => ErrorCode(rresult.error) = "FILE_OPERATION_ERROR"
    /\ (pc = "threw" /\ driverResult # NoResult) =>
           ErrorCode(outcome.error) = "FILE_OPERATION_ERROR"

\* a stat that fails after the open succeeded has surfaced from readFileChunk
C27_Witness ==
    /\ rresult.kind = "error"
    /\ fsCalls = << [fn |-> "open", path |-> SanitizeFilePath(rcall.filePath)],
                    [fn |-> "stat", path |-> rcall.filePath],
                    [fn |-> "close", path |-> SanitizeFilePath(rcall.filePath)] >>
    /\ rcall.length >= 0
    /\ ErrorCode(rresult.error) = "FILE_OPERATION_ERROR"

\* ts is the ISO-8601 text of time t with every colon and period replaced by
\* a dash
DashedIsoTime(ts, t) ==
    /\ Len(ts) = Len(IsoString(t))
    /\ \A i \in 1..Len(ts) :
           SubSeq(ts, i, i) = IF SubSeq(IsoString(t), i, i) \in {":", "."} THEN "-"
                              ELSE SubSeq(IsoString(t), i, i)

\* the spill record a call comes to return names the file
\* <tempdir>/<prefix><timestamp>.json of the time its spill began
SpillPathHasPrefix(prefix) ==
    (outcome'.kind = "spill" /\ outcome.kind # "spill") =>
        /\ spills[1].state = "stat"
        /\ DashedIsoTime(outcome'.record.timestamp, spills[1].t)
        /\ outcome'.record.filePath =
               "/tmp/" \o prefix \o outcome'.record.timestamp \o ".json"

\* C28 (as claimed): the file path in every spill record is
\* <tempdir>/mcp-result-<timestamp>.json, the timestamp being the ISO-8601
\* time of the spill with every colon and period replaced by a dash
C28_McpResultPath == [][SpillPathHasPrefix("mcp-result-")]_vars

\* C28: the file path in every spill record is
\* <tempdir>/mongodb-result-<timestamp>.json, the timestamp being the ISO-8601
\* time of the spill with every colon and period replaced by a dash
C28_MongodbResultPath == [][SpillPathHasPrefix("mongodb-result-")]_vars

\* a spill one millisecond after the start has returned its record
C28_Witness ==
    /\ pc = "returned" /\ outcome.kind = "spill" /\ now = 1
    /\ outcome.record.filePath = "/tmp/mongodb-result-2025-01-01T00-00-00-001Z.json"

\* C30: once a spill has written its file and returned its record, no later
\* step changes the content of that file, a second spill writing to another
\* path: while the caller holds the record, the file it names stays as it is
C30_SpilledFilesNeverChange ==
    [][(pc = "returned" /\ outcome.kind = "spill" /\ pc' = "returned") =>
           files'[outcome.record.filePath] = files[outcome.record.filePath]]_vars

\* C29: each executeCommand call has one outcome, fixed by whichever of
\* db.command and the timer completes first: when the timer fires first the
\* call throws the timeout error, no result has been delivered and no spill
\* file written for it; when db.command completes first the call does not
\* throw the timeout error; and once the outcome is there no later step of
\* the call, the loser of the race included, changes it or writes a file
C29_FirstCompletionDecides ==
    [][/\ (pc = "awaiting" /\ pc' # "awaiting") =>
              \/ /\ timer' = "fired" /\ op' = "pending"
                 /\ Threw("TIMEOUT_ERROR")'
                 /\ driverResult' = NoResult
                 /\ files' = filesBefore'
              \/ /\ op' = "settled" /\ timer' # "fired"
                 /\ ~Threw("TIMEOUT_ERROR")'
       /\ (pc \in {"returned", "threw"} /\ pc' # "idle") =>
              /\ pc' = pc
              /\ outcome' = outcome
              /\ driverResult' = driverResult
              /\ files' = files]_vars

\* the call timed out and db.command has completed after that
C29_Witness ==
    /\ Threw("TIMEOUT_ERROR")
    /\ timer = "fired" /\ op = "settled"
    /\ driverResult = NoResult
    /\ files = filesBefore

\* C31: validateCommand checks the allowlist, then the structure, then the
\* operators, and reports the first check that fails: a command outside the
\* allowlist gives COMMAND_NOT_ALLOWED whatever the options; an allowlisted
\* command whose options carry both another allowlisted command key and a
\* dangerous operator key gives INVALID_COMMAND_STRUCTURE; and it returns
\* without an error exactly when the command is allowlisted, no top-level key
\* is another command and no dangerous operator is a key of the options
C31_FirstFailingCheck ==
    vresult # "pending" =>
        LET allowed == vcall.command \in AllowedSet
            injected == HasOtherCommandKey(vcall.command, vcall.options)
            operator == HasOperatorKey(vcall.options)
        IN /\ ~allowed => vresult = "COMMAND_NOT_ALLOWED"
           /\ (allowed /\ injected /\ operator) => vresult = "INVALID_COMMAND_STRUCTURE"
           /\ (allowed /\ injected) => vresult # "DANGEROUS_OPERATION"
           /\ vresult = "DANGEROUS_OPERATION" => (allowed /\ ~injected /\ operator)
           /\ vresult = NoError <=> (allowed /\ ~injected /\ ~operator)

\* a command outside the allowlist whose options would fail both other checks
\* was answered with the allowlist error
C31_Witness ==
    /\ vresult = "COMMAND_NOT_ALLOWED"
    /\ vcall.command = "dropDatabase"
    /\ HasOtherCommandKey(vcall.command, vcall.options)
    /\ HasOperatorKey(vcall.options)

\* the name of a dangerous operator occurs in a string value: as the whole
\* string or a part of it, the string being a property's value or an array's
\* element at any depth
RECURSIVE OperatorInString(_)
OperatorInString(v) ==
    IF IsStr(v) THEN \E d \in DangerousSet : StrIncludes(v.str, d)
    ELSE IF IsObj(v) THEN \E i \in 1..Len(v.obj) : OperatorInString(v.obj[i].v)
    ELSE IF IsArr(v) THEN \E i \in 1..Len(v.arr) : OperatorInString(v.arr[i])
    ELSE FALSE

\* a dangerous operator is the key of a property, at any depth
RECURSIVE OperatorIsKey(_)
OperatorIsKey(v) ==
    IF IsObj(v)
    THEN \E i \in 1..Len(v.obj) :
             v.obj[i].k \in DangerousSet \/ OperatorIsKey(v.obj[i].v)
    ELSE IF IsArr(v) THEN \E i \in 1..Len(v.arr) : OperatorIsKey(v.arr[i])
    ELSE FALSE

\* C32: options in which the names of dangerous operators occur only inside
\* string values and never as a key pass the operator check of
\* validateCommand: for an allowlisted command the answer is never
\* DANGEROUS_OPERATION, and it is no error at all when no key is another command
C32_OperatorAsValuePasses ==
    ( /\ vresult # "pending"
      /\ vcall.command \in AllowedSet
      /\ OperatorInString(vcall.options)
      /\ ~OperatorIsKey(vcall.options) ) =>
        /\ vresult # "DANGEROUS_OPERATION"
        /\ ~HasOtherCommandKey(vcall.command, vcall.options) => vresult = NoError

\* a bag with an operator as a whole string value and, in another string, as
\* the key of a JSON text has passed
C32_Witness ==
    /\ vresult = NoError
    /\ vcall.command = "dbStats"
    /\ vcall.options = Obj(<<Prop("note", Str("$where")),
                             Prop("text", Str("{\"$out\":1}"))>>)

\* C37: every file handle readFileChunk opens is closed exactly once before
\* the call returns or throws, a failing stat, allocation or read after the
\* open included: when a call is over its close follows its successful open
\* as the last file system call, a call whose open failed closes nothing, and
\* no handle is left open in the process: the only handle ever open is the
\* one of the call that is still awaiting its stat, its read or its close
C37_HandlesClosed ==
    /\ Len(handles) = IF rstep # NoStep /\ rstep.pc # "open" THEN 1 ELSE 0
    /\ rresult # NoOutcome =>
           /\ CallsOf(fsCalls, "open") = 1
           /\ fsCalls[1].fn = "open"
           /\ CallsOf(fsCalls, "close") = IF rresult = Thrown("open") THEN 0 ELSE 1
           /\ rresult # Thrown("open") =>
                  /\ fsCalls[Len(fsCalls)].fn = "close"
                  /\ fsCalls[Len(fsCalls)].path = fsCalls[1].path

\* a read failed after the open and the stat had succeeded, and the handle
\* was closed
C37_Witness ==
    /\ rresult = Thrown("read")
    /\ fsCalls[Len(fsCalls)].fn = "close"
    /\ handles = <<>>

\* C34: a caller that starts at offset 0 and advances by the returned length
\* while hasMore is true comes to hasMore = false after finitely many reads,
\* for every chunk length read_command_result passes on (any number, with a
\* file path that is a string and not empty), because every read that
\* reports hasMore = true returns at least one byte: here the first read of
\* such a caller, the one at offset 0
C34_ProgressWhileMore ==
    ( /\ rcall.filePath # "" /\ rcall.offset = 0
      /\ rresult.kind = "value" /\ rresult.hasMore ) =>
        rresult.length >= 1

\* C38: executeCommand, and validateCommand inside it, leave the caller's
\* options object as it was passed: from the call to its return the object
\* does not change, it still holds the control options that were extracted
\* from it (outputToFile, forceOutput, timeout), and the object validated is
\* a copy of it without them; the keys collection and collStats that are
\* deleted from the command object are still in it
C38_OptionsNotMutated ==
    [][pc' # "idle" =>
           /\ pc # "idle" => call' = call
           /\ ctl' = ExtractControl(call'.options)
           /\ validated' = StripControl(call'.options)
           /\ \A key \in {"collection", "collStats"} :
                  HasKey(validated', key) => HasKey(call'.options, key)]_vars

\* a collStats call with control options has gone out without the keys
\* collection and timeout, and the caller's object still has both
C38_Witness ==
    /\ pc = "awaiting"
    /\ call.command = "collStats"
    /\ HasKey(call.options, "collection") /\ ~HasKey(payload, "collection")
    /\ HasKey(call.options, "timeout") /\ ~HasKey(payload, "timeout")

\* C36: the aggregate tool sends the database no pipeline in which a
\* dangerous operator is a stage or a nested key
C36_NoDangerousPipeline ==
    \A i \in DOMAIN dbOps :
        dbOps[i].op = "aggregate" => ~HasOperatorKey(dbOps[i].sent)

\* C35: after a disconnect tool call that reported the disconnection, or a
\* connect tool call that reported failure, and until a connect tool call
\* reports success, every query, aggregate, run_command and
\* read_command_result tool call made is answered at once with the
\* not-connected error and begins no database or file operation
C35_RefusedWhileDisconnected ==
    [][( /\ reported \in {"disconnected", "failed"}
         /\ tcall = NoTool /\ tcall' # NoTool
         /\ Includes(RequiresConnection, tcall'.name) ) =>
           /\ tresponse' = TextResponse("Error: Not connected to MongoDB. Please use the 'connect' tool first.")
           /\ dbOps' = <<>>
           /\ UNCHANGED <<pc, payload, rcall, fsCalls>>]_vars


\* what the two paths of a readFileChunk call name on a disk: the file the
\* sanitized path opens and the file the given path stats
AskedFiles(tmp, wd, filePath) ==
    LET fs == Disk(tmp)
        handle == Resolve(fs, wd, SanitizeFilePath(filePath))
        stats == Resolve(fs, wd, filePath)
    IN << IF handle = "" THEN <<>> ELSE <<handle, fs[handle]>>,
          IF stats = "" THEN <<>> ELSE <<stats, fs[stats]>> >>

=============================================================================
